---- MODULE Spec2Model ----
(***************************************************************************)
(* A model of the uniformly sampled animation clip encoder of acl:         *)
(* uniformly_sampled::compress_clip (encoder.h), the allocation helpers    *)
(* and align_to of memory.h, and the stream passes, writers and decoder    *)
(* that compress_clip calls.                                               *)
(*                                                                         *)
(* Values.  A translation is carried by one of its components, counted in  *)
(* steps of 2^-GridBits; a rotation is a rotation about the X axis, the    *)
(* quaternion (x, 0, 0, w), whose components are counted in steps of       *)
(* 1/QuatOne.  A clip holds doubles; a stream holds single-precision       *)
(* floats, so a value is rounded to 24 significant bits on its way into a  *)
(* stream.  A stored sample is the tuple of the components its storage     *)
(* shape keeps, each the fraction num/den, kept as the record [num, den],  *)
(* with the flip that a format without w remembers.                        *)
(*                                                                         *)
(* Time.  A sample time is a whole number of ticks, one tick being         *)
(* 1/(TicksPerSample * sample_rate) seconds, so that sample k lies at tick *)
(* k * TicksPerSample.                                                     *)
(***************************************************************************)
EXTENDS Integers, Sequences, FiniteSets, TLC

\* ---------------------------------------------------------------- bounds
MaxBones == 2
MaxSamples == 2
GridBits == 17
TicksPerSample == 2

MaxOffset == 4

\* ------------------------------------------------------- program constants
\* FullPrecisionConstants::NUM_TRACKS_PER_BONE: rotation and translation.
NUM_TRACKS_PER_BONE == 2
\* sizeof(CompressedClip): the fixed preamble (magic, version, algorithm,
\* reserved, total_size, crc32), which ends where the header begins.
SizeofCompressedClip == 16
\* sizeof(FullPrecisionHeader): u16 + 3 * u8 + padding, four u32 counts and
\* the five u32 offsets compress_clip fills in.
SizeofFullPrecisionHeader == 44
\* InvalidPtrOffset: std::numeric_limits<uint32_t>::max(), the all-ones
\* pattern, written here as that pattern reads in two's complement; no offset
\* the encoder computes is negative.
InvalidPtrOffset == -1
\* alignof(BoneStreams): a class that holds pointers to its sample arrays.
AlignofBoneStreams == 8
\* Allocator::DEFAULT_ALIGNMENT
DEFAULT_ALIGNMENT == 16

RotationFormat8 == {"Quat_128", "Quat_96", "Quat_48", "Quat_32"}
VectorFormat8 == {"Vector3_96", "Vector3_48", "Vector3_32"}
RangeReductionFlag == {"PerClip", "Rotations", "Translations"}
RangeReductionFlags8 == SUBSET RangeReductionFlag

\* ---------------------------------------------------------------- values
Abs(x) == IF x < 0 THEN 0 - x ELSE x

Frac(n, d) == [num |-> n, den |-> d]
Whole(n) == Frac(n, 1)
FracEq(a, b) == a.num * b.den = b.num * a.den

\* Steps of a translation component in 1.0.
UnitSteps == 2 ^ GridBits
\* Steps of a quaternion component in 1.0.
QuatOne == 2 ^ 13
\* The threshold compress_clip passes to compact_constant_streams: 0.00001.
ConstantThreshold == Frac(1, 100000)
\* The least whole number of steps of 1/unit that is not below the
\* threshold: a whole number d of steps has |d| / unit < threshold exactly
\* when |d| is less than it.
StepsBelow(threshold, unit) ==
    LET whole == (threshold.num * unit) \div threshold.den
    IN IF whole * threshold.den = threshold.num * unit THEN whole
       ELSE whole + 1
\* The threshold 0.00001 on a translation component, in steps.
ThresholdSteps == StepsBelow(ConstantThreshold, UnitSteps)
MaxVal == ThresholdSteps + 1
GridValues == 0..MaxVal
\* Translations of a few hundred units, where neighbouring steps are no
\* longer all single-precision floats.
WideValue == 2 ^ 25
WideValues == {0, WideValue, WideValue + 2}

\* Bits of a natural number.
RECURSIVE BitLength(_)
BitLength(n) == IF n = 0 THEN 0 ELSE 1 + BitLength(n \div 2)
\* A whole number of steps rounded to a float of the given significand
\* width, ties to even; the exponent range is never left.
round_to_significand(n, bits) ==
    LET a == Abs(n)
        ulp == IF BitLength(a) > bits THEN 2 ^ (BitLength(a) - bits) ELSE 1
        down == (a \div ulp) * ulp
        rest == a - down
        rounded == IF 2 * rest > ulp
                      \/ (2 * rest = ulp /\ (a \div ulp) % 2 = 1)
                   THEN down + ulp ELSE down
    IN IF n < 0 THEN 0 - rounded ELSE rounded
\* A value as a float (24 bits of significand) and as a double (53).
float32(n) == round_to_significand(n, 24)
float64(n) == round_to_significand(n, 53)

\* A component of a Quat_32 or Vector4_32, and of a Quat_64 or Vector4_64.
Value32(value) == [bits |-> 32, value |-> value]
Value64(value) == [bits |-> 64, value |-> value]
\* quat_cast(const Quat_32&) gives a Quat_64 and quat_cast(const Quat_64&) a
\* Quat_32, each component converted to the other floating-point type.
quat_cast(rotation) ==
    IF rotation.bits = 32 THEN Value64(float64(rotation.value))
    ELSE Value32(float32(rotation.value))
\* vector_cast(const Vector4_32&) and vector_cast(const Vector4_64&)
vector_cast(translation) ==
    IF translation.bits = 32 THEN Value64(float64(translation.value))
    ELSE Value32(float32(translation.value))

\* The quaternion (x, 0, 0, w).
Quat(x, w) == [x |-> x, w |-> w]
quat_identity == Quat(0, QuatOne)
\* quat_dot: the sum of the products of the components.
quat_dot(lhs, rhs) == lhs.x * rhs.x + lhs.w * rhs.w
\* The rotations of the clips: the identity, a rotation within the
\* threshold of it, half a turn, a rotation within the threshold of half a
\* turn, and the identity in the hemisphere w < 0.
NearIdentity == Quat(0 - 10, QuatOne)
HalfTurn == Quat(0 - QuatOne, 0)
NearHalfTurn == Quat(0 - QuatOne, 10)
NegatedIdentity == Quat(0, 0 - QuatOne)
QuatValues ==
    {quat_identity, NearIdentity, HalfTurn, NearHalfTurn, NegatedIdentity}

\* A stored sample: the components kept and whether the triple was flipped.
Sample(components, flipped) == [c |-> components, flipped |-> flipped]
\* The largest r in lo..hi with r * r <= n.
RECURSIVE sqrt_between(_, _, _)
sqrt_between(n, lo, hi) ==
    IF lo = hi THEN lo
    ELSE LET mid == (lo + hi + 1) \div 2
         IN IF mid * mid <= n THEN sqrt_between(n, mid, hi)
            ELSE sqrt_between(n, lo, mid - 1)
\* The square root of n to the nearest whole number, for n <= QuatOne^2.
sqrt_steps(n) ==
    LET r == sqrt_between(n, 0, QuatOne)
    IN IF n - r * r > r THEN r + 1 ELSE r

Min2(a, b) == IF a < b THEN a ELSE b
Max2(a, b) == IF a > b THEN a ELSE b

RECURSIVE SeqMin(_)
SeqMin(s) == IF Len(s) = 1 THEN s[1] ELSE Min2(s[1], SeqMin(Tail(s)))
RECURSIVE SeqMax(_)
SeqMax(s) == IF Len(s) = 1 THEN s[1] ELSE Max2(s[1], SeqMax(Tail(s)))
RECURSIVE SeqSum(_)
SeqSum(s) == IF s = <<>> THEN 0 ELSE s[1] + SeqSum(Tail(s))

\* ------------------------------------------------------------ enum flags
are_enum_flags_set(flags, flags_to_test) == flags_to_test \subseteq flags
is_enum_flag_set_any(flags, flag_to_test) == flags # {}
is_enum_flag_set(flags, flag_to_test) == flag_to_test \in flags
\* ACL_TRY_ASSERT(expression, ...): true when the assertion fails.
ACL_TRY_ASSERT(expression) == ~expression

\* ------------------------------------------------------------- memory.h
\* x & ~m on naturals, bit by bit.
RECURSIVE BitAndNot(_, _)
BitAndNot(x, m) ==
    IF x = 0 THEN 0
    ELSE ((x % 2) * (1 - (m % 2))) + 2 * BitAndNot(x \div 2, m \div 2)

align_to_down(value, alignment) == BitAndNot(value, alignment - 1)
align_to_next(value, alignment) == BitAndNot(value + alignment, alignment - 1)
align_to_wide(value, alignment) ==
    BitAndNot(value + (8 * alignment - 1), 8 * alignment - 1)
\* align_to(IntegralType value, size_t alignment)
align_to(value, alignment) == BitAndNot(value + (alignment - 1), alignment - 1)

\* One Allocator::allocate or Allocator::deallocate call: the array it is
\* for, the number of elements (the size is sizeof(AllocatedType) times
\* that, and the number itself for uint8_t) and the alignment passed.
AllocateCall(tag, num_elements, alignment) ==
    [op |-> "allocate", tag |-> tag, num_elements |-> num_elements,
     alignment |-> alignment]
DeallocateCall(tag, num_elements) ==
    [op |-> "deallocate", tag |-> tag, num_elements |-> num_elements,
     alignment |-> 0]
\* A call stopped by a failed ACL_ENSURE before it reached the Allocator.
StoppedCall(tag, alignment) ==
    [op |-> "stopped", tag |-> tag, num_elements |-> 0,
     alignment |-> alignment]

\* The two builds of the math headers: with ACL_SSE2_INTRINSICS a Quat_32
\* is a __m128 (quat_32.h: _mm_set_ps, _mm_cvtss_f32), without it four
\* floats.
Builds == {"ACL_SSE2_INTRINSICS", "scalar"}
\* Transform_32 as a build defines it: it holds a Quat_32.
Transform_32(build) ==
    IF build = "ACL_SSE2_INTRINSICS" THEN "Transform_32 of __m128"
    ELSE "Transform_32 of float"
\* alignof(AllocatedType)
Alignof(type) ==
    CASE type = "uint8_t" -> 1
      [] type = "uint32_t" -> 4
      [] type = "BoneStreams" -> AlignofBoneStreams
      [] type = "Transform_64" -> 8
      [] type = Transform_32("ACL_SSE2_INTRINSICS") -> 16
      [] type = Transform_32("scalar") -> 4

\* is_power_of_two(input): input != 0 && (input & (input - 1)) == 0
is_power_of_two(input) ==
    input # 0 /\ input - BitAndNot(input, input - 1) = 0
\* is_alignment_valid<Type>(alignment)
is_alignment_valid(type, alignment) ==
    is_power_of_two(alignment) /\ alignment >= Alignof(type)

\* An argument of a call: its static type and its value.
Arg(type, value) == [type |-> type, value |-> value]

\* allocate_type_array<AllocatedType>(allocator, num_elements, args...):
\* the overload without an alignment parameter.
allocate_type_array_args(type, tag, num_elements, args) ==
    AllocateCall(tag, num_elements, Alignof(type))
\* allocate_type_array<AllocatedType>(allocator, num_elements, alignment,
\* args...): the overload with an alignment parameter.
allocate_type_array_aligned(type, tag, num_elements, alignment, args) ==
    IF ~is_alignment_valid(type, alignment) THEN StoppedCall(tag, alignment)
    ELSE AllocateCall(tag, num_elements, alignment)

\* The overload a call allocate_type_array<T>(allocator, n, a...) selects.
\* With no further argument only the first overload is viable.  With one,
\* both are: the first binds it to Args&& (an exact match for every
\* argument type), the second converts it to size_t, which is an exact
\* match only for an argument of type size_t; only then are the two
\* conversion sequences equal and the more specialized second overload
\* chosen.
allocate_type_array(type, tag, num_elements, args) ==
    IF args # <<>> /\ args[1].type = "size_t"
    THEN allocate_type_array_aligned(type, tag, num_elements,
                                     args[1].value, Tail(args))
    ELSE allocate_type_array_args(type, tag, num_elements, args)

\* deallocate_type_array(allocator, elements, num_elements)
deallocate_type_array(tag, num_elements) == DeallocateCall(tag, num_elements)

\* ------------------------------------------------------------ the inputs
\* An AnimationClip: per bone a rotation track and a translation track of
\* num_samples samples each.
Tracks(num_samples, values) == [1..num_samples -> values]
Bones(rotation_tracks, translation_tracks) ==
    [rotation_track : rotation_tracks, translation_track : translation_tracks]
Clips(num_bones, num_samples, rotation_tracks, translation_tracks) ==
    [num_bones : {num_bones}, num_samples : {num_samples},
     sample_rate : {30},
     bones : [1..num_bones -> Bones(rotation_tracks, translation_tracks)]]

CompressionSettings ==
    [rotation_format : RotationFormat8, translation_format : VectorFormat8,
     range_reduction : RangeReductionFlags8]
\* CompressionSettings(): the reference formats, no range reduction.
DefaultCompressionSettings ==
    [rotation_format |-> "Quat_128", translation_format |-> "Vector3_96",
     range_reduction |-> {}]

\* ----------------------------------------------------- formats and sizes
get_packed_rotation_size(format) ==
    CASE format = "Quat_128" -> 16
      [] format = "Quat_96" -> 12
      [] format = "Quat_48" -> 6
      [] format = "Quat_32" -> 4
get_packed_vector_size(format) ==
    CASE format = "Vector3_96" -> 12
      [] format = "Vector3_48" -> 6
      [] format = "Vector3_32" -> 4
\* Bits of the quantized first component; 0 for the formats that store
\* IEEE-754 floats.
QuantizedBits(format) ==
    CASE format \in {"Quat_128", "Quat_96", "Vector3_96"} -> 0
      [] format \in {"Quat_48", "Vector3_48"} -> 16
      [] format \in {"Quat_32", "Vector3_32"} -> 11
\* Bytes of one (min, extent) pair in the range region.
get_range_rotation_size(format) == IF format = "Quat_128" THEN 32 ELSE 24
get_range_translation_size(format) == 24

\* get_bitset_size(num_bits): 32-bit words that hold num_bits bits.
get_bitset_size(num_bits) == (num_bits + 31) \div 32

\* ---------------------------------------------------------- BoneStreams
NoRange == [min |-> <<>>, extent |-> <<>>]

\* The samples of a track as a stream holds them: each double of the clip
\* narrowed to a float, a rotation as (x, w), a translation as (x).
RawRotationStream(track) ==
    [k \in 1..Len(track) |->
        Sample(<<Whole(quat_cast(Value64(track[k].x)).value),
                 Whole(quat_cast(Value64(track[k].w)).value)>>, FALSE)]
RawTranslationStream(track) ==
    [k \in 1..Len(track) |->
        Sample(<<Whole(vector_cast(Value64(track[k])).value)>>, FALSE)]

\* Bytes of the sample buffer a stream holds.
rotations_size(bone_stream) ==
    Len(bone_stream.rotations)
        * get_packed_rotation_size(bone_stream.rotation_format)
translations_size(bone_stream) ==
    Len(bone_stream.translations)
        * get_packed_vector_size(bone_stream.translation_format)
\* The Allocator calls that replace the sample buffer of a stream: the new
\* buffer is allocated, filled, and the one it replaces deallocated.  A
\* stream without samples holds no buffer.
replace_buffer_calls(tag, old_size, new_size) ==
    (IF new_size > 0
     THEN <<AllocateCall(tag, new_size, DEFAULT_ALIGNMENT)>> ELSE <<>>)
    \o (IF old_size > 0 THEN <<DeallocateCall(tag, old_size)>> ELSE <<>>)
\* The calls of a pass that rewrote the streams before into the streams
\* after, bone by bone, the rotations then the translations, for the
\* streams the pass rewrote.
RECURSIVE pass_calls(_, _, _, _)
pass_calls(before, after, rotations_rewritten, translations_rewritten) ==
    IF before = <<>> THEN <<>>
    ELSE (IF rotations_rewritten[1]
          THEN replace_buffer_calls("rotations", rotations_size(before[1]),
                                    rotations_size(after[1]))
          ELSE <<>>)
      \o (IF translations_rewritten[1]
          THEN replace_buffer_calls("translations",
                                    translations_size(before[1]),
                                    translations_size(after[1]))
          ELSE <<>>)
      \o pass_calls(Tail(before), Tail(after), Tail(rotations_rewritten),
                    Tail(translations_rewritten))
\* Every stream of the kind, and none.
Always(bone_streams) == [b \in DOMAIN bone_streams |-> TRUE]
Never(bone_streams) == [b \in DOMAIN bone_streams |-> FALSE]
\* A BoneStreams that holds no buffer.
NoStreams ==
    [rotations |-> <<>>, translations |-> <<>>,
     rotation_format |-> "Quat_128", translation_format |-> "Vector3_96"]

\* convert_clip_to_streams: one BoneStreams per bone, the samples of both
\* tracks copied as 4 x f32 and 3 x f32, no flag set.
convert_clip_to_streams(clip) ==
    [b \in 1..clip.num_bones |->
        [rotations |-> RawRotationStream(clip.bones[b].rotation_track),
         translations |->
             RawTranslationStream(clip.bones[b].translation_track),
         rotation_format |-> "Quat_128",
         translation_format |-> "Vector3_96",
         is_rotation_default |-> FALSE,
         is_rotation_constant |-> FALSE,
         is_translation_default |-> FALSE,
         is_translation_constant |-> FALSE,
         are_rotations_normalized |-> FALSE,
         are_translations_normalized |-> FALSE,
         are_rotations_quantized |-> FALSE,
         are_translations_quantized |-> FALSE,
         rotation_range |-> NoRange,
         translation_range |-> NoRange]]
\* Its allocator calls: the BoneStreams array, then per bone the sample
\* buffer of each of its two streams.
convert_clip_to_streams_calls(clip) ==
    <<allocate_type_array("BoneStreams", "bone_streams", clip.num_bones,
                          <<>>)>>
    \o pass_calls([b \in 1..clip.num_bones |-> NoStreams],
                  convert_clip_to_streams(clip),
                  Always(convert_clip_to_streams(clip)),
                  Always(convert_clip_to_streams(clip)))

\* ---------------------------------------------------- rotation conversion
MaxQuantized(bits) == 2 ^ bits - 1
\* n / d to the nearest whole number, for d > 0.
RoundDiv(n, d) == (2 * n + d) \div (2 * d)

\* A value of [0, 1] to the nearest of the 2^bits - 1 steps; what is stored
\* is the integer code, kept as the fraction code / (2^bits - 1) it stands
\* for.
quantize_unorm(value, bits) ==
    Frac((2 * value.num * MaxQuantized(bits) + value.den) \div (2 * value.den),
         MaxQuantized(bits))
\* A quaternion component, of the native range [-1, 1], first mapped to
\* [0, 1].
quantize_snorm(value, bits) ==
    Frac((MaxQuantized(bits) + 1) \div 2
           + (value.num * MaxQuantized(bits)) \div (2 * QuatOne),
         MaxQuantized(bits))
\* The inverse affine map, back to steps.
dequantize_snorm(stored) ==
    Frac((2 * stored.num - stored.den) * QuatOne, stored.den)

\* A component in the storage shape of a rotation format: a float for the
\* formats that store floats, else the value its code of the format's
\* width stands for, to the nearest step.
to_storage_shape(x, bits) ==
    IF bits = 0 THEN x
    ELSE LET stored == dequantize_snorm(quantize_snorm(Whole(x), bits))
         IN RoundDiv(stored.num, stored.den)
\* Quat_128 keeps (x, w).  The other formats drop w: the kept component is
\* flipped first if w < 0, and the flip remembered.
convert_rotation_sample(sample, rotation_format) ==
    IF rotation_format = "Quat_128" THEN sample
    ELSE LET flipped == sample.c[2].num < 0
             x == IF flipped THEN 0 - sample.c[1].num ELSE sample.c[1].num
         IN Sample(<<Whole(to_storage_shape(x,
                               QuantizedBits(rotation_format)))>>, flipped)
\* convert_rotation_streams: every rotation sample is rewritten into the
\* storage shape of the rotation format.
convert_rotation_streams(bone_streams, rotation_format) ==
    [b \in DOMAIN bone_streams |->
        [bone_streams[b] EXCEPT
           !.rotations = [k \in DOMAIN @ |->
                             convert_rotation_sample(@[k], rotation_format)],
           !.rotation_format = rotation_format]]
\* Its allocator calls: a buffer of the new shape replaces each rotation
\* buffer; Quat_128 is the shape the streams already have.
convert_rotation_streams_calls(bone_streams, rotation_format) ==
    IF rotation_format = "Quat_128" THEN <<>>
    ELSE pass_calls(bone_streams,
                    convert_rotation_streams(bone_streams, rotation_format),
                    Always(bone_streams), Never(bone_streams))

\* ------------------------------------------------------------ compaction
\* The quaternion a stored rotation sample stands for.  Where w was
\* dropped it is the w >= 0 that gives the quaternion the length 1, and a
\* remembered flip is undone.
stored_quat(sample) ==
    IF Len(sample.c) = 2 THEN Quat(sample.c[1].num, sample.c[2].num)
    ELSE LET x == sample.c[1].num
             w == sqrt_steps(Max2(0, QuatOne * QuatOne - x * x))
         IN IF sample.flipped THEN Quat(0 - x, 0 - w) ELSE Quat(x, w)

\* Every rotation of the stream has a dot product with the rotation of at
\* least 1 - threshold.
is_rotation_stream_near(stream, rotation, threshold) ==
    \A k \in DOMAIN stream :
        quat_dot(stored_quat(stream[k]), rotation)
            >= QuatOne * QuatOne
               - (threshold.num * QuatOne * QuatOne) \div threshold.den
\* Every component of every translation of the stream is within the
\* threshold of the component of the translation.
is_translation_stream_near(stream, translation, threshold) ==
    \A k \in DOMAIN stream : \A i \in DOMAIN stream[k].c :
        Abs(stream[k].c[i].num - translation.c[i].num)
            < StepsBelow(threshold, UnitSteps)

\* compact_constant_streams: per bone and track kind, default when every
\* sample is within the threshold of the canonical value (the identity
\* rotation, the zero translation), else constant when every sample is
\* within the threshold of the first one.  A default stream keeps no
\* sample, a constant stream its first sample.
compacted_stream(stream, is_default, is_constant) ==
    IF is_default
    THEN [samples |-> <<>>, is_default |-> TRUE, is_constant |-> FALSE]
    ELSE IF is_constant
    THEN [samples |-> <<stream[1]>>, is_default |-> FALSE, is_constant |-> TRUE]
    ELSE [samples |-> stream, is_default |-> FALSE, is_constant |-> FALSE]
compact_rotation_stream(stream, threshold) ==
    compacted_stream(stream,
        is_rotation_stream_near(stream, quat_identity, threshold),
        is_rotation_stream_near(stream, stored_quat(stream[1]), threshold))
compact_translation_stream(stream, threshold) ==
    compacted_stream(stream,
        is_translation_stream_near(stream, Sample(<<Whole(0)>>, FALSE),
                                   threshold),
        is_translation_stream_near(stream, stream[1], threshold))

compact_constant_streams_no_dominance(bone_streams, threshold) ==
    [b \in DOMAIN bone_streams |->
        LET r == compact_rotation_stream(bone_streams[b].rotations, threshold)
            t == compact_translation_stream(bone_streams[b].translations,
                                            threshold)
        IN [bone_streams[b] EXCEPT
              !.rotations = r.samples,
              !.is_rotation_default = r.is_default,
              !.is_rotation_constant = r.is_constant \/ r.is_default,
              !.translations = t.samples,
              !.is_translation_default = t.is_default,
              !.is_translation_constant = t.is_constant \/ t.is_default]]
compact_constant_streams(bone_streams, threshold) ==
    [b \in DOMAIN bone_streams |->
        LET r == compact_rotation_stream(bone_streams[b].rotations, threshold)
            t == compact_translation_stream(bone_streams[b].translations,
                                            threshold)
        IN [bone_streams[b] EXCEPT
              !.rotations = r.samples,
              !.is_rotation_default = r.is_default,
              !.is_rotation_constant = r.is_constant,
              !.translations = t.samples,
              !.is_translation_default = t.is_default,
              !.is_translation_constant = t.is_constant]]

is_rotation_animated(bone_stream) ==
    ~bone_stream.is_rotation_default /\ ~bone_stream.is_rotation_constant
is_translation_animated(bone_stream) ==
    ~bone_stream.is_translation_default /\ ~bone_stream.is_translation_constant

\* Its allocator calls: a default stream gives its buffer up, a constant
\* stream moves its sample to a buffer of one sample, an animated stream
\* keeps its buffer.
compact_constant_streams_calls(bone_streams, threshold) ==
    LET after == compact_constant_streams(bone_streams, threshold)
    IN pass_calls(bone_streams, after,
                  [b \in DOMAIN after |-> ~is_rotation_animated(after[b])],
                  [b \in DOMAIN after |-> ~is_translation_animated(after[b])])

\* ------------------------------------------------------- range reduction
\* Component i of every sample of a stream of whole steps.
Component(stream, i) == [k \in DOMAIN stream |-> stream[k].c[i].num]
\* (min, extent) of a stream, component by component.
calculate_range(stream) ==
    [min |-> [i \in DOMAIN stream[1].c |-> SeqMin(Component(stream, i))],
     extent |-> [i \in DOMAIN stream[1].c |->
                    SeqMax(Component(stream, i))
                    - SeqMin(Component(stream, i))]]
\* (s - min) / extent, and 0 where the extent is 0.
normalize_component(value, min, extent) ==
    IF extent = 0 THEN Whole(0) ELSE Frac(value.num - min, extent)
normalize_sample(sample, range) ==
    [sample EXCEPT !.c = [i \in DOMAIN @ |->
        normalize_component(@[i], range.min[i], range.extent[i])]]
normalize_stream(stream, range) ==
    [k \in DOMAIN stream |-> normalize_sample(stream[k], range)]

\* normalize_rotation_streams: the animated rotation streams, when the
\* flags ask for rotations.
normalize_rotation_streams(bone_streams, range_reduction, rotation_format) ==
    [b \in DOMAIN bone_streams |->
        IF is_enum_flag_set(range_reduction, "Rotations")
           /\ is_rotation_animated(bone_streams[b])
        THEN LET range == calculate_range(bone_streams[b].rotations)
             IN [bone_streams[b] EXCEPT
                   !.rotations = normalize_stream(@, range),
                   !.rotation_range = range,
                   !.are_rotations_normalized = TRUE]
        ELSE bone_streams[b]]
\* normalize_translation_streams: likewise for translations.
normalize_translation_streams(bone_streams, range_reduction) ==
    [b \in DOMAIN bone_streams |->
        IF is_enum_flag_set(range_reduction, "Translations")
           /\ is_translation_animated(bone_streams[b])
        THEN LET range == calculate_range(bone_streams[b].translations)
             IN [bone_streams[b] EXCEPT
                   !.translations = normalize_stream(@, range),
                   !.translation_range = range,
                   !.are_translations_normalized = TRUE]
        ELSE bone_streams[b]]

\* get_stream_range_data_size: one (min, extent) pair per normalized stream.
RECURSIVE get_stream_range_data_size(_, _, _, _)
get_stream_range_data_size(bone_streams, range_reduction, rotation_format, translation_format) ==
    IF bone_streams = <<>> THEN 0
    ELSE (IF are_enum_flags_set(range_reduction, {"PerClip", "Rotations"})
             /\ is_rotation_animated(bone_streams[1])
          THEN get_range_rotation_size(rotation_format) ELSE 0)
       + (IF are_enum_flags_set(range_reduction, {"PerClip", "Translations"})
             /\ is_translation_animated(bone_streams[1])
          THEN get_range_translation_size(translation_format) ELSE 0)
       + get_stream_range_data_size(Tail(bone_streams), range_reduction,
                                    rotation_format, translation_format)

\* ---------------------------------------------------------- quantization
\* A component to its code of the given width: of [0, 1] when the stream is
\* normalized, else of the native range; a float is kept.
quantize_component(value, bits, is_normalized) ==
    IF bits = 0 THEN value
    ELSE IF is_normalized THEN quantize_unorm(value, bits)
    ELSE quantize_snorm(value, bits)
quantize_sample(sample, bits, is_normalized) ==
    [sample EXCEPT !.c = [i \in DOMAIN @ |->
        quantize_component(@[i], bits, is_normalized)]]
quantize_stream(stream, bits, is_normalized) ==
    [k \in DOMAIN stream |-> quantize_sample(stream[k], bits, is_normalized)]

\* The inverse affine maps, back to steps.
dequantize_component(stored, bits, is_normalized) ==
    IF bits = 0 \/ is_normalized THEN stored ELSE dequantize_snorm(stored)
dequantize_sample(stored, bits, is_normalized) ==
    [stored EXCEPT !.c = [i \in DOMAIN @ |->
        dequantize_component(@[i], bits, is_normalized)]]
\* min + value * extent
denormalize_component(value, min, extent) ==
    Frac(min * value.den + value.num * extent, value.den)
denormalize_sample(value, range) ==
    [value EXCEPT !.c = [i \in DOMAIN @ |->
        denormalize_component(@[i], range.min[i], range.extent[i])]]

quantize_rotation_streams_with_constant(bone_streams, rotation_format) ==
    [b \in DOMAIN bone_streams |->
        IF bone_streams[b].is_rotation_default THEN bone_streams[b]
        ELSE [bone_streams[b] EXCEPT
                !.rotations = quantize_stream(@, QuantizedBits(rotation_format),
                                  bone_streams[b].are_rotations_normalized),
                !.are_rotations_quantized = TRUE]]
\* quantize_rotation_streams: the samples of the animated rotation streams
\* at the rotation format; a constant stream keeps its sample as
\* convert_rotation_streams shaped it.
quantize_rotation_streams(bone_streams, rotation_format) ==
    [b \in DOMAIN bone_streams |->
        IF ~is_rotation_animated(bone_streams[b]) THEN bone_streams[b]
        ELSE [bone_streams[b] EXCEPT
                !.rotations = quantize_stream(@, QuantizedBits(rotation_format),
                                  bone_streams[b].are_rotations_normalized),
                !.are_rotations_quantized = TRUE]]
\* quantize_translation_streams: the animated translation samples at the
\* translation format; a constant stream keeps its sample at Vector3_96.
quantize_translation_streams(bone_streams, translation_format) ==
    [b \in DOMAIN bone_streams |->
        IF ~is_translation_animated(bone_streams[b])
        THEN bone_streams[b]
        ELSE [bone_streams[b] EXCEPT
                !.translations = quantize_stream(@,
                                  QuantizedBits(translation_format),
                                  bone_streams[b].are_translations_normalized),
                !.translation_format = translation_format,
                !.are_translations_quantized = TRUE]]
\* Their allocator calls: a buffer of quantized samples replaces the buffer
\* of each animated stream.
quantize_rotation_streams_calls(bone_streams, rotation_format) ==
    pass_calls(bone_streams,
               quantize_rotation_streams(bone_streams, rotation_format),
               [b \in DOMAIN bone_streams |->
                   is_rotation_animated(bone_streams[b])],
               Never(bone_streams))
quantize_translation_streams_calls(bone_streams, translation_format) ==
    pass_calls(bone_streams,
               quantize_translation_streams(bone_streams, translation_format),
               Never(bone_streams),
               [b \in DOMAIN bone_streams |->
                   is_translation_animated(bone_streams[b])])
\* ~BoneStreams(): the buffers the two streams still hold are deallocated.
destroy_bone_streams_calls(bone_streams) ==
    pass_calls(bone_streams, [b \in DOMAIN bone_streams |-> NoStreams],
               Always(bone_streams), Always(bone_streams))

\* get_num_animated_streams: the counts of constant and of animated
\* streams, per track kind; a default stream is in neither.
get_num_animated_streams(bone_streams) ==
    [num_constant_rotation_tracks |->
        Cardinality({b \in DOMAIN bone_streams :
            ~bone_streams[b].is_rotation_default
            /\ bone_streams[b].is_rotation_constant}),
     num_constant_translation_tracks |->
        Cardinality({b \in DOMAIN bone_streams :
            ~bone_streams[b].is_translation_default
            /\ bone_streams[b].is_translation_constant}),
     num_animated_rotation_tracks |->
        Cardinality({b \in DOMAIN bone_streams :
            ~bone_streams[b].is_rotation_default
            /\ ~bone_streams[b].is_rotation_constant}),
     num_animated_translation_tracks |->
        Cardinality({b \in DOMAIN bone_streams :
            ~bone_streams[b].is_translation_default
            /\ ~bone_streams[b].is_translation_constant})]

\* ----------------------------------------------------------- the writers
\* A bitset is bitset_size words; a word is the set of its bit positions
\* that are set.  The bit of (bone, track kind) is bit bone_index * 2 + k
\* of the bitset, k = 0 for the rotation and 1 for the translation.
bitset_of(bits, bitset_size) ==
    [w \in 1..bitset_size |->
        {i \in 0..31 : ((w - 1) * 32 + i) \in bits}]
bitset_test(bitset, bit) ==
    /\ (bit \div 32) + 1 \in DOMAIN bitset
    /\ (bit % 32) \in bitset[(bit \div 32) + 1]

write_default_track_bitset(bone_streams, bitset_size) ==
    bitset_of({(b - 1) * NUM_TRACKS_PER_BONE : b \in
                  {c \in DOMAIN bone_streams : bone_streams[c].is_rotation_default}}
              \cup
              {(b - 1) * NUM_TRACKS_PER_BONE + 1 : b \in
                  {c \in DOMAIN bone_streams : bone_streams[c].is_translation_default}},
              bitset_size)
write_constant_track_bitset(bone_streams, bitset_size) ==
    bitset_of({(b - 1) * NUM_TRACKS_PER_BONE : b \in
                  {c \in DOMAIN bone_streams : bone_streams[c].is_rotation_constant}}
              \cup
              {(b - 1) * NUM_TRACKS_PER_BONE + 1 : b \in
                  {c \in DOMAIN bone_streams : bone_streams[c].is_translation_constant}},
              bitset_size)

\* What a writer puts in a region: the stored value and its size in bytes.
Entry(value, size) == [value |-> value, size |-> size]
EntriesSize(entries) == SeqSum([k \in DOMAIN entries |-> entries[k].size])
StreamEntries(stream, size) == [k \in DOMAIN stream |-> Entry(stream[k], size)]

\* write_constant_track_data: bone-major, the rotation then the translation,
\* the single sample of each constant stream.  A rotation is written in the
\* packed form of its storage shape: the code of each kept component.
RECURSIVE write_constant_track_data(_)
write_constant_track_data(bone_streams) ==
    IF bone_streams = <<>> THEN <<>>
    ELSE LET s == bone_streams[1] IN
         (IF s.is_rotation_constant
          THEN StreamEntries(
                   quantize_stream(s.rotations,
                                   QuantizedBits(s.rotation_format), FALSE),
                   get_packed_rotation_size(s.rotation_format))
          ELSE <<>>)
      \o (IF s.is_translation_constant
          THEN StreamEntries(s.translations,
                             get_packed_vector_size("Vector3_96"))
          ELSE <<>>)
      \o write_constant_track_data(Tail(bone_streams))

\* write_animated_track_data: per bone all the samples of its animated
\* rotation stream, then all those of its animated translation stream.
RECURSIVE write_animated_track_data(_)
write_animated_track_data(bone_streams) ==
    IF bone_streams = <<>> THEN <<>>
    ELSE LET s == bone_streams[1] IN
         (IF is_rotation_animated(s)
          THEN StreamEntries(s.rotations,
                             get_packed_rotation_size(s.rotation_format))
          ELSE <<>>)
      \o (IF is_translation_animated(s)
          THEN StreamEntries(s.translations,
                             get_packed_vector_size(s.translation_format))
          ELSE <<>>)
      \o write_animated_track_data(Tail(bone_streams))

\* write_range_track_data: bone-major, the (min, extent) of each normalized
\* stream.
RECURSIVE write_range_track_data(_, _, _, _)
write_range_track_data(bone_streams, range_reduction, rotation_format, translation_format) ==
    IF bone_streams = <<>> THEN <<>>
    ELSE LET s == bone_streams[1] IN
         (IF are_enum_flags_set(range_reduction, {"PerClip", "Rotations"})
             /\ is_rotation_animated(s)
          THEN <<Entry(s.rotation_range,
                       get_range_rotation_size(rotation_format))>>
          ELSE <<>>)
      \o (IF are_enum_flags_set(range_reduction, {"PerClip", "Translations"})
             /\ is_translation_animated(s)
          THEN <<Entry(s.translation_range,
                       get_range_translation_size(translation_format))>>
          ELSE <<>>)
      \o write_range_track_data(Tail(bone_streams), range_reduction,
                                rotation_format, translation_format)

\* ------------------------------------------------------- compress_clip
NoHeader ==
    [num_bones |-> 0, rotation_format |-> "Quat_128",
     translation_format |-> "Vector3_96", range_reduction |-> {},
     num_samples |-> 0, sample_rate |-> 0,
     num_animated_rotation_tracks |-> 0,
     num_animated_translation_tracks |-> 0,
     default_tracks_bitset_offset |-> 0,
     constant_tracks_bitset_offset |-> 0,
     constant_track_data_offset |-> 0,
     clip_range_data_offset |-> 0,
     track_data_offset |-> 0]

\* The locals of a compress_clip call that returned before computing them.
NoLocals ==
    [bone_streams |-> <<>>,
     num_constant_rotation_tracks |-> 0,
     num_constant_translation_tracks |-> 0,
     num_animated_rotation_tracks |-> 0,
     num_animated_translation_tracks |-> 0,
     rotation_size |-> 0, translation_size |-> 0,
     constant_data_size |-> 0, animated_data_size |-> 0,
     clip_range_data_size |-> 0, bitset_size |-> 0, buffer_size |-> 0,
     header_as_filled |-> NoHeader]

\* The CompressedClip of a call that returned nullptr.
NullClip ==
    [is_null |-> TRUE, size |-> 0, algorithm_type |-> "None",
     header |-> NoHeader, default_tracks_bitset |-> <<>>,
     constant_tracks_bitset |-> <<>>, constant_track_data |-> <<>>,
     clip_range_data |-> <<>>, track_data |-> <<>>, is_finalized |-> FALSE]

Returned(compressed_clip, calls, locals) ==
    [compressed_clip |-> compressed_clip, calls |-> calls, locals |-> locals]

\* The stream passes of compress_clip after convert_clip_to_streams, in the
\* order of its statements; the two normalization passes run only with
\* PerClip.
StreamPasses(settings) ==
    <<"convert_rotation_streams", "compact_constant_streams">>
    \o (IF is_enum_flag_set(settings.range_reduction, "PerClip")
        THEN <<"normalize_rotation_streams", "normalize_translation_streams">>
        ELSE <<>>)
    \o <<"quantize_rotation_streams", "quantize_translation_streams">>
\* One pass, called as compress_clip calls it: the streams it leaves.
stream_pass(pass, bone_streams, settings) ==
    CASE pass = "convert_rotation_streams" ->
             convert_rotation_streams(bone_streams, settings.rotation_format)
      [] pass = "compact_constant_streams" ->
             compact_constant_streams(bone_streams, ConstantThreshold)
      [] pass = "normalize_rotation_streams" ->
             normalize_rotation_streams(bone_streams,
                 settings.range_reduction, settings.rotation_format)
      [] pass = "normalize_translation_streams" ->
             normalize_translation_streams(bone_streams,
                                           settings.range_reduction)
      [] pass = "quantize_rotation_streams" ->
             quantize_rotation_streams(bone_streams, settings.rotation_format)
      [] pass = "quantize_translation_streams" ->
             quantize_translation_streams(bone_streams,
                                          settings.translation_format)
\* Its allocator calls; the normalization passes are given no allocator.
stream_pass_calls(pass, bone_streams, settings) ==
    CASE pass = "convert_rotation_streams" ->
             convert_rotation_streams_calls(bone_streams,
                                            settings.rotation_format)
      [] pass = "compact_constant_streams" ->
             compact_constant_streams_calls(bone_streams, ConstantThreshold)
      [] pass \in {"normalize_rotation_streams",
                   "normalize_translation_streams"} -> <<>>
      [] pass = "quantize_rotation_streams" ->
             quantize_rotation_streams_calls(bone_streams,
                                             settings.rotation_format)
      [] pass = "quantize_translation_streams" ->
             quantize_translation_streams_calls(bone_streams,
                                                settings.translation_format)
\* The streams and the allocator calls so far, after the passes that remain.
RECURSIVE run_stream_passes(_, _, _)
run_stream_passes(passes, ran, settings) ==
    IF passes = <<>> THEN ran
    ELSE run_stream_passes(Tail(passes),
             [bone_streams |->
                  stream_pass(passes[1], ran.bone_streams, settings),
              calls |->
                  ran.calls
                  \o stream_pass_calls(passes[1], ran.bone_streams, settings)],
             settings)
\* The stream passes of compress_clip, from convert_clip_to_streams to
\* quantize_translation_streams: the streams they leave and their
\* allocator calls, in order.
compress_passes(clip, settings) ==
    run_stream_passes(StreamPasses(settings),
        [bone_streams |-> convert_clip_to_streams(clip),
         calls |-> convert_clip_to_streams_calls(clip)],
        settings)
compress_streams(clip, settings) == compress_passes(clip, settings).bone_streams
compress_streams_calls(clip, settings) == compress_passes(clip, settings).calls

\* "Constant translation tracks store the remaining sample with full
\* precision"
constant_translation_size_as_animated(settings) ==
    get_packed_vector_size(settings.translation_format)
constant_translation_size(settings) == get_packed_vector_size("Vector3_96")

\* The sizes compress_clip computes from the streams.
compress_sizes(clip, settings, bone_streams) ==
    LET n == get_num_animated_streams(bone_streams)
        rotation_size == get_packed_rotation_size(settings.rotation_format)
        translation_size == get_packed_vector_size(settings.translation_format)
        clip_range_data_size ==
            IF is_enum_flag_set(settings.range_reduction, "PerClip")
            THEN get_stream_range_data_size(bone_streams,
                     settings.range_reduction, settings.rotation_format,
                     settings.translation_format)
            ELSE 0
        constant_data_size ==
            (rotation_size * n.num_constant_rotation_tracks)
            + (constant_translation_size(settings)
               * n.num_constant_translation_tracks)
        animated_data_size ==
            ((rotation_size * n.num_animated_rotation_tracks)
             + (translation_size * n.num_animated_translation_tracks))
            * clip.num_samples
        bitset_size == get_bitset_size(clip.num_bones * NUM_TRACKS_PER_BONE)
        buffer_size ==
            align_to(
                align_to(SizeofCompressedClip + SizeofFullPrecisionHeader
                         + 4 * bitset_size + 4 * bitset_size
                         + constant_data_size, 4)
                + clip_range_data_size, 4)
            + animated_data_size
    IN [bone_streams |-> bone_streams,
        num_constant_rotation_tracks |-> n.num_constant_rotation_tracks,
        num_constant_translation_tracks |-> n.num_constant_translation_tracks,
        num_animated_rotation_tracks |-> n.num_animated_rotation_tracks,
        num_animated_translation_tracks |-> n.num_animated_translation_tracks,
        rotation_size |-> rotation_size,
        translation_size |-> translation_size,
        constant_data_size |-> constant_data_size,
        animated_data_size |-> animated_data_size,
        clip_range_data_size |-> clip_range_data_size,
        bitset_size |-> bitset_size,
        buffer_size |-> buffer_size,
        header_as_filled |-> NoHeader]

\* The header as compress_clip first fills it in, every offset computed.
fill_header(clip, settings, sizes) ==
    LET default_tracks_bitset_offset == SizeofFullPrecisionHeader
        constant_tracks_bitset_offset ==
            default_tracks_bitset_offset + 4 * sizes.bitset_size
        constant_track_data_offset ==
            constant_tracks_bitset_offset + 4 * sizes.bitset_size
        clip_range_data_offset ==
            align_to(constant_track_data_offset + sizes.constant_data_size, 4)
        track_data_offset ==
            align_to(clip_range_data_offset + sizes.clip_range_data_size, 4)
    IN [num_bones |-> clip.num_bones,
        rotation_format |-> settings.rotation_format,
        translation_format |-> settings.translation_format,
        range_reduction |-> settings.range_reduction,
        num_samples |-> clip.num_samples,
        sample_rate |-> clip.sample_rate,
        num_animated_rotation_tracks |-> sizes.num_animated_rotation_tracks,
        num_animated_translation_tracks |-> sizes.num_animated_translation_tracks,
        default_tracks_bitset_offset |-> default_tracks_bitset_offset,
        constant_tracks_bitset_offset |-> constant_tracks_bitset_offset,
        constant_track_data_offset |-> constant_track_data_offset,
        clip_range_data_offset |-> clip_range_data_offset,
        track_data_offset |-> track_data_offset]

\* The region writes of compress_clip and the offsets they replace by the
\* sentinel, then finalize_compressed_clip.
write_regions(settings, sizes, header) ==
    [is_null |-> FALSE,
     size |-> sizes.buffer_size,
     algorithm_type |-> "UniformlySampled",
     header |->
        [header EXCEPT
           !.constant_track_data_offset =
               IF sizes.constant_data_size > 0 THEN @ ELSE InvalidPtrOffset,
           !.track_data_offset =
               IF sizes.animated_data_size > 0 THEN @ ELSE InvalidPtrOffset,
           !.clip_range_data_offset =
               IF is_enum_flag_set(settings.range_reduction, "PerClip")
               THEN @ ELSE InvalidPtrOffset],
     default_tracks_bitset |->
        write_default_track_bitset(sizes.bone_streams, sizes.bitset_size),
     constant_tracks_bitset |->
        write_constant_track_bitset(sizes.bone_streams, sizes.bitset_size),
     constant_track_data |->
        IF sizes.constant_data_size > 0
        THEN write_constant_track_data(sizes.bone_streams) ELSE <<>>,
     track_data |->
        IF sizes.animated_data_size > 0
        THEN write_animated_track_data(sizes.bone_streams) ELSE <<>>,
     clip_range_data |->
        IF is_enum_flag_set(settings.range_reduction, "PerClip")
        THEN write_range_track_data(sizes.bone_streams,
                 settings.range_reduction, settings.rotation_format,
                 settings.translation_format)
        ELSE <<>>,
     is_finalized |-> TRUE]

\* The precondition checks at the top of compress_clip.
fails_empty_clip_bones_only(clip) == ACL_TRY_ASSERT(clip.num_bones > 0)
fails_empty_clip(clip) ==
    \/ ACL_TRY_ASSERT(clip.num_bones > 0)
    \/ ACL_TRY_ASSERT(clip.num_samples > 0)
fails_translation_format_any_flag(settings) ==
    /\ settings.translation_format # "Vector3_96"
    /\ ACL_TRY_ASSERT(\E f \in {"PerClip", "Translations"} :
                          is_enum_flag_set(settings.range_reduction, f))
fails_translation_format(settings) ==
    /\ settings.translation_format # "Vector3_96"
    /\ ACL_TRY_ASSERT(are_enum_flags_set(settings.range_reduction,
                                         {"PerClip", "Translations"}))

\* compress_clip from the sizes on: the buffer allocation, the header,
\* the region writes, the destruction of the streams and the return.
compress_clip_written(clip, stream_calls, settings, sizes, header) ==
    Returned(write_regions(settings, sizes, header),
             stream_calls
             \o << allocate_type_array("uint8_t", "buffer", sizes.buffer_size,
                                       <<Arg("int", 16)>>) >>
             \o destroy_bone_streams_calls(sizes.bone_streams)
             \o << deallocate_type_array("bone_streams", clip.num_bones) >>,
             [sizes EXCEPT !.header_as_filled = header])
compress_clip_sized(clip, stream_calls, settings, sizes) ==
    compress_clip_written(clip, stream_calls, settings, sizes,
                          fill_header(clip, settings, sizes))
\* compress_clip(allocator, clip, skeleton, settings): what it returns, the
\* allocator calls it makes, in order, and its locals.
compress_clip(clip, settings) ==
    IF fails_empty_clip(clip) THEN Returned(NullClip, <<>>, NoLocals)
    ELSE IF fails_translation_format(settings)
    THEN Returned(NullClip, <<>>, NoLocals)
    ELSE compress_clip_sized(clip, compress_streams_calls(clip, settings),
             settings,
             compress_sizes(clip, settings, compress_streams(clip, settings)))

\* ----------------------------------------------------------- the decoder
\* calculate_interpolation_keys: the time clamped to [0, duration], the two
\* frames around it and the interpolation alpha between them.
clamp(input, min, max) == Min2(Max2(input, min), max)
calculate_interpolation_keys_no_clamp(num_samples, tick) ==
    [sample_frame0 |-> tick \div TicksPerSample,
     sample_frame1 |-> Min2((tick \div TicksPerSample) + 1, num_samples - 1),
     interpolation_alpha |-> Frac(tick % TicksPerSample, TicksPerSample)]
calculate_interpolation_keys_no_min(num_samples, tick) ==
    LET t == clamp(tick, 0, (num_samples - 1) * TicksPerSample)
        frame0 == t \div TicksPerSample
    IN [sample_frame0 |-> frame0,
        sample_frame1 |-> frame0 + 1,
        interpolation_alpha |-> Frac(t % TicksPerSample, TicksPerSample)]
calculate_interpolation_keys(num_samples, tick) ==
    LET t == clamp(tick, 0, (num_samples - 1) * TicksPerSample)
        frame0 == t \div TicksPerSample
    IN [sample_frame0 |-> frame0,
        sample_frame1 |-> Min2(frame0 + 1, num_samples - 1),
        interpolation_alpha |-> Frac(t % TicksPerSample, TicksPerSample)]

\* sample0 + (sample1 - sample0) * alpha
lerp(sample0, sample1, alpha) ==
    IF sample0.den = sample1.den
    THEN Frac(sample0.num * alpha.den
                + (sample1.num - sample0.num) * alpha.num,
              sample0.den * alpha.den)
    ELSE Frac(sample0.num * sample1.den * alpha.den
                + (sample1.num * sample0.den - sample0.num * sample1.den)
                  * alpha.num,
              sample0.den * sample1.den * alpha.den)

\* The interpolation of two samples, component by component.
lerp_sample(sample0, sample1, alpha) ==
    [sample0 EXCEPT !.c = [i \in DOMAIN @ |->
        lerp(@[i], sample1.c[i], alpha)]]

is_track_default(blob, bit) == bitset_test(blob.default_tracks_bitset, bit)
is_track_constant(blob, bit) == bitset_test(blob.constant_tracks_bitset, bit)
is_track_animated(blob, bit) ==
    ~is_track_default(blob, bit) /\ ~is_track_constant(blob, bit)
\* The range reduction flags say the tracks of the kind of this bit are
\* normalized.
is_track_kind_normalized(blob, bit) ==
    are_enum_flags_set(blob.header.range_reduction,
        {"PerClip", IF bit % 2 = 0 THEN "Rotations" ELSE "Translations"})
track_format(blob, bit) ==
    IF bit % 2 = 0 THEN blob.header.rotation_format
    ELSE blob.header.translation_format

\* The positions of a track's data in the three regions: one entry per
\* constant track, num_samples entries per animated track and one range
\* entry per normalized animated track, in bit order.
constant_entry_index(blob, bit) ==
    Cardinality({i \in 0..(bit - 1) :
                    ~is_track_default(blob, i) /\ is_track_constant(blob, i)}) + 1
animated_entry_index_no_seek(blob, bit, frame) == frame + 1
animated_entry_index(blob, bit, frame) ==
    Cardinality({i \in 0..(bit - 1) : is_track_animated(blob, i)})
        * blob.header.num_samples + frame + 1
range_entry_index(blob, bit) ==
    Cardinality({i \in 0..(bit - 1) :
                    is_track_animated(blob, i)
                    /\ is_track_kind_normalized(blob, i)}) + 1

\* The canonical value of the track kind of a bit, in the storage shape of
\* its format: the identity rotation, the zero translation.
canonical_sample(blob, bit) ==
    IF bit % 2 = 0 /\ blob.header.rotation_format = "Quat_128"
    THEN Sample(<<Whole(quat_identity.x), Whole(quat_identity.w)>>, FALSE)
    ELSE Sample(<<Whole(0)>>, FALSE)

\* One stored animated sample, dequantized and taken out of its range.
decompress_sample(blob, bit, frame) ==
    LET stored == blob.track_data[animated_entry_index(blob, bit, frame)].value
        bits == QuantizedBits(track_format(blob, bit))
    IN IF is_track_kind_normalized(blob, bit)
       THEN denormalize_sample(
                dequantize_sample(stored, bits, TRUE),
                blob.clip_range_data[range_entry_index(blob, bit)].value)
       ELSE dequantize_sample(stored, bits, FALSE)

\* The value of one track at a time: the canonical value of a default
\* track, the stored sample of a constant track, the interpolation of the
\* two frames of an animated track.
decompress_track(blob, bit, tick) ==
    LET keys == calculate_interpolation_keys(blob.header.num_samples, tick)
    IN IF is_track_default(blob, bit) THEN canonical_sample(blob, bit)
       ELSE IF is_track_constant(blob, bit)
       THEN dequantize_sample(
                blob.constant_track_data[constant_entry_index(blob, bit)].value,
                IF bit % 2 = 0
                THEN QuantizedBits(blob.header.rotation_format) ELSE 0,
                FALSE)
       ELSE lerp_sample(decompress_sample(blob, bit, keys.sample_frame0),
                        decompress_sample(blob, bit, keys.sample_frame1),
                        keys.interpolation_alpha)

Transform(rotation, translation) ==
    [rotation |-> rotation, translation |-> translation]

\* decompress_bone(blob, t, bone_index, &rotation, &translation)
decompress_bone(blob, tick, sample_bone_index) ==
    Transform(
        decompress_track(blob, sample_bone_index * NUM_TRACKS_PER_BONE, tick),
        decompress_track(blob, sample_bone_index * NUM_TRACKS_PER_BONE + 1,
                         tick))
\* decompress_pose walks the tracks in bit order and keeps three cursors:
\* how many constant entries, animated tracks and range entries it has
\* passed.
FirstCursor == [constant |-> 0, animated |-> 0, range |-> 0]
\* One stored animated sample read at the cursors.
decompress_sample_at(blob, bit, frame, cursor) ==
    LET stored == blob.track_data[cursor.animated * blob.header.num_samples
                                  + frame + 1].value
        bits == QuantizedBits(track_format(blob, bit))
    IN IF is_track_kind_normalized(blob, bit)
       THEN denormalize_sample(dequantize_sample(stored, bits, TRUE),
                               blob.clip_range_data[cursor.range + 1].value)
       ELSE dequantize_sample(stored, bits, FALSE)
\* The value of the track of a bit, read at the cursors.
decompress_track_at(blob, bit, tick, cursor) ==
    LET keys == calculate_interpolation_keys(blob.header.num_samples, tick)
    IN IF is_track_default(blob, bit) THEN canonical_sample(blob, bit)
       ELSE IF is_track_constant(blob, bit)
       THEN dequantize_sample(
                blob.constant_track_data[cursor.constant + 1].value,
                IF bit % 2 = 0
                THEN QuantizedBits(blob.header.rotation_format) ELSE 0,
                FALSE)
       ELSE lerp_sample(
                decompress_sample_at(blob, bit, keys.sample_frame0, cursor),
                decompress_sample_at(blob, bit, keys.sample_frame1, cursor),
                keys.interpolation_alpha)
\* The cursors after the track of a bit.
advance_cursor(blob, bit, cursor) ==
    IF is_track_default(blob, bit) THEN cursor
    ELSE IF is_track_constant(blob, bit)
    THEN [cursor EXCEPT !.constant = @ + 1]
    ELSE IF is_track_kind_normalized(blob, bit)
    THEN [cursor EXCEPT !.animated = @ + 1, !.range = @ + 1]
    ELSE [cursor EXCEPT !.animated = @ + 1]
\* The values of the tracks from a bit on.
RECURSIVE decompress_tracks(_, _, _, _)
decompress_tracks(blob, tick, bit, cursor) ==
    IF bit >= blob.header.num_bones * NUM_TRACKS_PER_BONE THEN <<>>
    ELSE <<decompress_track_at(blob, bit, tick, cursor)>>
         \o decompress_tracks(blob, tick, bit + 1,
                              advance_cursor(blob, bit, cursor))
\* decompress_pose(blob, t, out[num_bones])
decompress_pose(blob, tick) ==
    LET tracks == decompress_tracks(blob, tick, 0, FirstCursor)
    IN [b \in 1..blob.header.num_bones |->
           Transform(tracks[(b - 1) * NUM_TRACKS_PER_BONE + 1],
                     tracks[(b - 1) * NUM_TRACKS_PER_BONE + 2])]

\* ------------------------------------------------------------- the state
VARIABLES
    clip,             \* the AnimationClip given to compress_clip
    settings,         \* the CompressionSettings given to compress_clip
    pc,               \* where try_algorithm is: "start", "compressed", ...
    allocator,        \* the calls the Allocator has received, in order
    compressed_clip,  \* what compress_clip returned
    locals,           \* the locals of the compress_clip call at its return
    sample_tick,      \* the time decompress_pose was last asked for
    lossy_pose,       \* the pose decompress_pose last wrote
    sample_bone_index, \* the bone decompress_bone was last asked for
    test_transform,   \* the rotation and translation decompress_bone last wrote
    image,            \* the bytes of the artifact as they are loaded
    threads,          \* the compress_clip calls in progress, statement by statement
    memory,           \* the heap of _aligned_malloc: the live blocks by address
    animation_track,  \* an AnimationRotationTrack or AnimationTranslationTrack
    track_sample,     \* the last sample_track call on it
    track_call,       \* the last set_sample or get_sample call on it
    output_writer,    \* an OutputWriterImpl or RawOutputWriterImpl
    ptr_offset,       \* a PtrOffset16 or PtrOffset32
    ptr_result,       \* what add_to or safe_add_to last gave on it
    objects,          \* the tracks or unique_ptrs constructed, by name
    blocks,           \* every block the Allocator handed out, by address
    pure_call         \* the last call of a function of the math or memory headers

\* The state of try_algorithm and find_max_error.
toolVars == <<clip, settings, pc, allocator, compressed_clip, locals,
              sample_tick, lossy_pose, sample_bone_index, test_transform,
              image>>
\* The state of the compress_clip calls run statement by statement.
stageVars == <<threads, memory>>
\* The state of a track and of its sampling.
trackVars == <<animation_track, track_sample, track_call>>
\* The state of an output writer.
writerVars == <<output_writer>>
\* The state of a PtrOffset.
ptrVars == <<ptr_offset, ptr_result>>
\* The objects that own a buffer and the buffers.
lifeVars == <<objects, blocks>>
\* The state of a call of a function without state.
pureVars == <<pure_call>>
vars == <<toolVars, stageVars, trackVars, writerVars, ptrVars, lifeVars,
          pureVars>>

\* No compress_clip call is in progress.
NoThreads == threads = <<>> /\ memory = <<>>
\* No track, no output writer and no PtrOffset have been constructed.
NoTrack == animation_track = <<>> /\ track_sample = <<>> /\ track_call = <<>>
NoWriter == output_writer = <<>>
NoPtrOffset == ptr_offset = <<>> /\ ptr_result = <<>>
\* No owner has been constructed and no function called.
NoLife == objects = <<>> /\ blocks = <<>>
NoPure == pure_call = <<>>

\* The clips of one bone and at most MaxSamples samples, of every value
\* around the threshold.
FineClips ==
    UNION {Clips(1, s, Tracks(s, QuatValues \ {NegatedIdentity}),
                 Tracks(s, GridValues)) : s \in 0..MaxSamples}
\* The clips of one bone whose translations are wide apart.
WideClips ==
    UNION {Clips(1, s, Tracks(s, {quat_identity}), Tracks(s, WideValues)) :
              s \in 1..MaxSamples}
\* The sample times asked for: every tick from one tick before the clip to
\* one tick after the longest clip.
SampleTicks == (0 - 1)..((MaxSamples - 1) * TicksPerSample + 1)
\* The clips of at most one bone whose samples are all either canonical or
\* far from it, empty clips included.
SmallClips ==
    UNION {Clips(n, s, Tracks(s, {quat_identity, HalfTurn}),
                 Tracks(s, {0, MaxVal})) :
              n \in 0..1, s \in 0..MaxSamples}
\* One track of each class: all samples canonical, all samples the same far
\* value, and a first sample far from the others.  The far rotation that
\* stays is in the hemisphere w < 0.
ShapeRotationTracks(num_samples) ==
    {[k \in 1..num_samples |-> quat_identity],
     [k \in 1..num_samples |-> NegatedIdentity],
     [k \in 1..num_samples |-> IF k = 1 THEN HalfTurn ELSE quat_identity]}
ShapeTracks(num_samples) ==
    {[k \in 1..num_samples |-> 0],
     [k \in 1..num_samples |-> MaxVal],
     [k \in 1..num_samples |-> IF k = 1 THEN MaxVal ELSE 0]}
\* The clips of the given numbers of bones and samples whose tracks are of
\* these shapes.
ShapeClips(num_bones, num_samples) ==
    Clips(num_bones, num_samples, ShapeRotationTracks(num_samples),
          ShapeTracks(num_samples))
\* The clips of at most MaxBones bones and MaxSamples samples whose tracks
\* are of these shapes, the bones after the first alike.
CoarseBones(num_bones) ==
    {[b \in 1..num_bones |-> IF b = 1 THEN first ELSE other] :
        first \in Bones(ShapeRotationTracks(MaxSamples), ShapeTracks(MaxSamples)),
        other \in Bones(ShapeRotationTracks(MaxSamples), ShapeTracks(MaxSamples))}
CoarseClips ==
    {[num_bones |-> Len(bones), num_samples |-> MaxSamples, sample_rate |-> 30,
      bones |-> bones] :
        bones \in UNION {CoarseBones(n) : n \in 0..MaxBones}}
\* main: the settings of the algorithms in uniform_tests, every rotation
\* format with every translation format; Vector3_96 with no range
\* reduction and with PerClip and either or both of Rotations and
\* Translations, the other translation formats with PerClip, Translations
\* and optionally Rotations.
uniform_tests ==
    {s \in CompressionSettings :
        IF s.translation_format = "Vector3_96"
        THEN s.range_reduction \in {{}, {"PerClip", "Rotations"},
                                    {"PerClip", "Translations"},
                                    {"PerClip", "Rotations", "Translations"}}
        ELSE s.range_reduction \in {{"PerClip", "Translations"},
                                    {"PerClip", "Rotations", "Translations"}}}

InitWith(clips, all_settings) ==
    /\ clip \in clips
    /\ settings \in all_settings
    /\ pc = "start"
    /\ allocator = <<>>
    /\ compressed_clip = NullClip
    /\ locals = NoLocals
    /\ sample_tick = 0
    /\ lossy_pose = <<>>
    /\ sample_bone_index = 0
    /\ test_transform = <<>>
    /\ image = <<>>
    /\ NoThreads
    /\ NoTrack
    /\ NoWriter
    /\ NoPtrOffset
    /\ NoLife
    /\ NoPure

\* try_algorithm: algorithm.compress_clip(allocator, clip, skeleton)
CompressClip ==
    /\ pc = "start"
    /\ \E r \in {compress_clip(clip, settings)} :
         /\ compressed_clip' = r.compressed_clip
         /\ allocator' = allocator \o r.calls
         /\ locals' = r.locals
    /\ pc' = "compressed"
    /\ UNCHANGED <<clip, settings, sample_tick, lossy_pose>>
    /\ UNCHANGED <<sample_bone_index, test_transform, image>>
    /\ UNCHANGED <<stageVars, trackVars, writerVars, ptrVars, lifeVars, pureVars>>

\* find_max_error: RawOutputWriterImpl raw_output_writer(allocator,
\* num_bones), whose constructor allocates its transforms, and
\* allocate_type_array<Transform_32>(allocator, num_bones).
FindMaxErrorBegin ==
    /\ pc = "compressed"
    /\ ~compressed_clip.is_null
    /\ \E build \in Builds :
          allocator' = allocator \o
             << allocate_type_array("Transform_64", "raw_transforms",
                                    clip.num_bones, <<>>),
                allocate_type_array(Transform_32(build),
                                    "lossy_pose_transforms",
                                    clip.num_bones, <<>>) >>
    /\ pc' = "find_max_error"
    /\ UNCHANGED <<clip, settings, compressed_clip, locals>>
    /\ UNCHANGED <<sample_tick, lossy_pose, sample_bone_index, test_transform,
                   image>>
    /\ UNCHANGED <<stageVars, trackVars, writerVars, ptrVars, lifeVars, pureVars>>

\* The duration of the clip, in ticks.
DurationTicks(num_samples) == (num_samples - 1) * TicksPerSample
\* find_max_error: algorithm.decompress_pose(compressed_clip, sample_time,
\* lossy_pose_transforms, num_bones): sample_time starts at 0 and advances
\* by 1 / sample_rate while it is before the duration, and the last call
\* is at the duration.
DecompressPose ==
    /\ \/ pc = "find_max_error" /\ sample_tick' = 0
       \/ /\ pc = "sampled"
          /\ sample_tick < DurationTicks(clip.num_samples)
          /\ sample_tick' = sample_tick + TicksPerSample
    /\ lossy_pose' = decompress_pose(compressed_clip, sample_tick')
    /\ pc' = "sampled"
    /\ UNCHANGED <<clip, settings, allocator, compressed_clip, locals>>
    /\ UNCHANGED <<sample_bone_index, test_transform, image>>
    /\ UNCHANGED <<stageVars, trackVars, writerVars, ptrVars, lifeVars, pureVars>>

\* find_max_error: algorithm.decompress_bone(compressed_clip,
\* clip_duration, sample_bone_index, &test_rotation, &test_translation),
\* for the last bone, after the decompress_pose at the duration.
DecompressBone ==
    /\ pc = "sampled"
    /\ sample_tick = DurationTicks(clip.num_samples)
    /\ sample_bone_index' = clip.num_bones - 1
    /\ test_transform' =
          decompress_bone(compressed_clip, sample_tick, clip.num_bones - 1)
    /\ pc' = "bone_sampled"
    /\ UNCHANGED <<clip, settings, allocator, compressed_clip, locals>>
    /\ UNCHANGED <<sample_tick, lossy_pose, image>>
    /\ UNCHANGED <<stageVars, trackVars, writerVars, ptrVars, lifeVars, pureVars>>

\* find_max_error: deallocate_type_array(allocator, lossy_pose_transforms,
\* num_bones), then the return, where ~RawOutputWriterImpl deallocates its
\* transforms; the locals of find_max_error end with it.
FindMaxErrorEnd ==
    /\ pc = "bone_sampled"
    /\ allocator' = allocator \o
          << deallocate_type_array("lossy_pose_transforms", clip.num_bones),
             deallocate_type_array("raw_transforms", clip.num_bones) >>
    /\ sample_tick' = 0
    /\ lossy_pose' = <<>>
    /\ sample_bone_index' = 0
    /\ test_transform' = <<>>
    /\ pc' = "error_found"
    /\ UNCHANGED <<clip, settings, compressed_clip, locals, image>>
    /\ UNCHANGED <<stageVars, trackVars, writerVars, ptrVars, lifeVars, pureVars>>

\* try_algorithm: allocator.deallocate(compressed_clip,
\* compressed_clip->get_size())
ReleaseCompressedClip ==
    /\ pc = "error_found"
    /\ allocator' = Append(allocator,
                           DeallocateCall("buffer", compressed_clip.size))
    /\ pc' = "released"
    /\ UNCHANGED <<clip, settings, compressed_clip, locals>>
    /\ UNCHANGED <<sample_tick, lossy_pose, sample_bone_index, test_transform,
                   image>>
    /\ UNCHANGED <<stageVars, trackVars, writerVars, ptrVars, lifeVars, pureVars>>

Next ==
    \/ CompressClip
    \/ FindMaxErrorBegin
    \/ DecompressPose
    \/ DecompressBone
    \/ FindMaxErrorEnd
    \/ ReleaseCompressedClip

\* The one-bone clips of every value with the default settings, the small
\* clips with every settings value, and the clips of several bones with the
\* settings main tries.
Init ==
    \/ InitWith(FineClips \cup WideClips, {DefaultCompressionSettings})
    \/ InitWith(SmallClips, CompressionSettings)
    \/ InitWith(CoarseClips, uniform_tests)

Spec == Init /\ [][Next]_vars

\* ------------------------------------------------------------ the claims
Returned_ == pc # "start"
ReturnedArtifact == pc # "start" /\ ~compressed_clip.is_null
NonEmptyClip == clip.num_bones > 0 /\ clip.num_samples > 0

\* Range reduction for translations is on: PerClip and Translations are set.
TranslationRangeReductionEnabled ==
    "PerClip" \in settings.range_reduction
    /\ "Translations" \in settings.range_reduction
\* C1: compress_clip returns null and calls the allocator not once when the
\* translation format is not Vector3_96 and the flags do not enable range
\* reduction for translations (PerClip and Translations both set); with any
\* other settings a clip of at least one bone and one sample is not
\* rejected.
C1_FormatPrecondition ==
    Returned_ =>
        IF settings.translation_format # "Vector3_96"
           /\ ~TranslationRangeReductionEnabled
        THEN compressed_clip.is_null /\ allocator = <<>>
        ELSE NonEmptyClip => ~compressed_clip.is_null
C1_Witness ==
    /\ pc = "compressed"
    /\ NonEmptyClip
    /\ settings.translation_format = "Vector3_48"
    /\ settings.range_reduction = {"Translations"}
    /\ compressed_clip.is_null
    /\ allocator = <<>>

\* C2: compress_clip returns null and calls the allocator not once when the
\* clip has no bones or no samples, whatever the settings.
C2_EmptyClip ==
    (Returned_ /\ ~NonEmptyClip) =>
        compressed_clip.is_null /\ allocator = <<>>
C2_Witness ==
    /\ pc = "compressed"
    /\ clip.num_bones > 0
    /\ clip.num_samples = 0
    /\ settings.translation_format = "Vector3_32"
    /\ compressed_clip.is_null
    /\ allocator = <<>>

\* The class of a track of the clip, read off its samples: default when all
\* are within the threshold of the canonical value, else constant when all
\* are within the threshold of the first.
RotationTrackIsNearCanonical(track) ==
    \A k \in DOMAIN track :
        quat_dot(track[k], quat_identity)
            >= QuatOne * QuatOne
               - (ConstantThreshold.num * QuatOne * QuatOne)
                     \div ConstantThreshold.den
TranslationTrackIsNearCanonical(track) ==
    \A k \in DOMAIN track : Abs(track[k]) < ThresholdSteps

SampledAtSample ==
    /\ pc = "sampled"
    /\ settings = DefaultCompressionSettings
    /\ sample_tick % TicksPerSample = 0
    /\ (sample_tick \div TicksPerSample) \in 0..(clip.num_samples - 1)
SampledIndex == (sample_tick \div TicksPerSample) + 1

\* C3, as stated: with the settings {Quat_128, Vector3_96, None} the pose
\* decompressed at the time of sample k is exactly sample k of the clip, for
\* every bone's rotation and translation.
C3_ExactRoundTrip ==
    SampledAtSample =>
        \A b \in 1..clip.num_bones :
            LET rotation == clip.bones[b].rotation_track[SampledIndex]
                translation == clip.bones[b].translation_track[SampledIndex]
            IN /\ FracEq(lossy_pose[b].rotation.c[1], Whole(rotation.x))
               /\ FracEq(lossy_pose[b].rotation.c[2], Whole(rotation.w))
               /\ FracEq(lossy_pose[b].translation.c[1], Whole(translation))

\* The three data regions of the artifact: the offset the header holds for
\* each, the bytes written into it and the size compress_clip computed for
\* it.
DataRegions ==
    << [offset |-> compressed_clip.header.constant_track_data_offset,
        written |-> EntriesSize(compressed_clip.constant_track_data),
        size |-> locals.constant_data_size],
       [offset |-> compressed_clip.header.clip_range_data_offset,
        written |-> EntriesSize(compressed_clip.clip_range_data),
        size |-> locals.clip_range_data_size],
       [offset |-> compressed_clip.header.track_data_offset,
        written |-> EntriesSize(compressed_clip.track_data),
        size |-> locals.animated_data_size] >>
\* All five regions the header points to, the two bitsets first.
AllRegions ==
    << [offset |-> compressed_clip.header.default_tracks_bitset_offset,
        written |-> 4 * Len(compressed_clip.default_tracks_bitset),
        size |-> 4 * locals.bitset_size],
       [offset |-> compressed_clip.header.constant_tracks_bitset_offset,
        written |-> 4 * Len(compressed_clip.constant_tracks_bitset),
        size |-> 4 * locals.bitset_size] >> \o DataRegions
\* The bytes of the artifact after the preamble, which the header's offsets
\* count from.
PayloadSize == compressed_clip.size - SizeofCompressedClip

\* C4: in every artifact each of the constant data, range data
\* and animated data offsets is the sentinel exactly when its region holds
\* no byte, and else an offset inside the blob.
C4_SentinelIffEmpty ==
    ReturnedArtifact =>
        \A i \in DOMAIN DataRegions :
            LET r == DataRegions[i] IN
            /\ (r.offset = InvalidPtrOffset) <=> (r.written = 0)
            /\ r.offset # InvalidPtrOffset =>
                   (r.offset >= 0 /\ r.offset < PayloadSize)

\* The smallest multiple of 4 that is at least x.
RoundUp4(x) == CHOOSE m \in x..(x + 3) : m % 4 = 0

\* C5: in every artifact every region offset that is not the sentinel is a
\* multiple of 4, its region ends within the artifact, and no two of the
\* regions [offset, offset + size) overlap.
C5_HeaderSelfConsistent ==
    ReturnedArtifact =>
        /\ \A i \in DOMAIN AllRegions :
               LET r == AllRegions[i] IN
               r.offset # InvalidPtrOffset =>
                   /\ r.offset % 4 = 0
                   /\ r.offset >= SizeofFullPrecisionHeader
                   /\ r.written = r.size
                   /\ SizeofCompressedClip + r.offset + r.size
                          <= compressed_clip.size
        /\ \A i, j \in DOMAIN AllRegions :
               LET r == AllRegions[i]
                   q == AllRegions[j]
               IN (i < j /\ r.offset # InvalidPtrOffset
                         /\ q.offset # InvalidPtrOffset) =>
                      r.offset + r.size <= q.offset
\* A constant region of 6 bytes (one Quat_48 rotation) is followed, after
\* two bytes of padding, by a range region and an animated region.
C5_Witness ==
    /\ ReturnedArtifact
    /\ locals.constant_data_size = 6
    /\ locals.clip_range_data_size > 0
    /\ locals.animated_data_size > 0
    /\ compressed_clip.header.clip_range_data_offset
           = compressed_clip.header.constant_track_data_offset + 8

\* Where the layout puts the three data regions.
ConstantDataPosition == SizeofFullPrecisionHeader + 2 * (4 * locals.bitset_size)
RangeDataPosition == RoundUp4(ConstantDataPosition + locals.constant_data_size)
AnimatedDataPosition == RoundUp4(RangeDataPosition + locals.clip_range_data_size)
\* C6: the regions lie in the order header, default bitset, constant
\* bitset, constant data, range data, animated data: the default bitset at
\* sizeof(header), the constant bitset 4 * bitset_size bytes later, the
\* constant data 4 * bitset_size bytes after that, the range data at the
\* next multiple of 4 at or after the end of the constant data, the animated
\* data at the next multiple of 4 at or after the end of the range data;
\* an offset replaced by the sentinel moves no other region.
C6_RegionOrder ==
    ReturnedArtifact =>
        LET filled == locals.header_as_filled
            final == compressed_clip.header
        IN /\ locals.bitset_size
                  = (clip.num_bones * 2 + 31) \div 32
           /\ filled.default_tracks_bitset_offset = SizeofFullPrecisionHeader
           /\ filled.constant_tracks_bitset_offset
                  = SizeofFullPrecisionHeader + 4 * locals.bitset_size
           /\ filled.constant_track_data_offset = ConstantDataPosition
           /\ filled.clip_range_data_offset = RangeDataPosition
           /\ filled.track_data_offset = AnimatedDataPosition
           /\ final.default_tracks_bitset_offset
                  = filled.default_tracks_bitset_offset
           /\ final.constant_tracks_bitset_offset
                  = filled.constant_tracks_bitset_offset
           /\ final.constant_track_data_offset
                  \in {ConstantDataPosition, InvalidPtrOffset}
           /\ final.clip_range_data_offset
                  \in {RangeDataPosition, InvalidPtrOffset}
           /\ final.track_data_offset
                  \in {AnimatedDataPosition, InvalidPtrOffset}
\* The constant data offset was replaced by the sentinel, and the range and
\* animated regions follow where the empty constant region ends.
C6_Witness ==
    /\ ReturnedArtifact
    /\ compressed_clip.header.constant_track_data_offset = InvalidPtrOffset
    /\ locals.clip_range_data_size > 0
    /\ compressed_clip.header.clip_range_data_offset = ConstantDataPosition
    /\ compressed_clip.header.track_data_offset
           = ConstantDataPosition + locals.clip_range_data_size

\* The buffer size by the layout rule, and the buffer allocations made.
AnimatedSizePerSample ==
    locals.rotation_size * locals.num_animated_rotation_tracks
    + locals.translation_size * locals.num_animated_translation_tracks
ExpectedBufferSize ==
    RoundUp4(RoundUp4(SizeofCompressedClip + SizeofFullPrecisionHeader
                      + 2 * (4 * locals.bitset_size)
                      + locals.constant_data_size)
             + locals.clip_range_data_size)
    + AnimatedSizePerSample * clip.num_samples
BufferAllocations ==
    {i \in DOMAIN allocator :
        allocator[i].op = "allocate" /\ allocator[i].tag = "buffer"}
\* C7: the buffer compress_clip allocates has preamble + header + 2 * (4 *
\* bitset_size) + constant_data_size bytes, rounded up to a multiple of 4,
\* + range_data_size, rounded up to a multiple of 4, + the animated size of
\* one sample times num_samples.
C7_BufferSize ==
    ReturnedArtifact =>
        /\ Cardinality(BufferAllocations) = 1
        /\ \A i \in BufferAllocations :
               allocator[i].num_elements = ExpectedBufferSize
        /\ compressed_clip.size = ExpectedBufferSize
\* Both roundings add padding: 6 bytes of constant data, then a range
\* region, then animated data.
C7_Witness ==
    /\ ReturnedArtifact
    /\ locals.constant_data_size % 4 = 2
    /\ locals.clip_range_data_size > 0
    /\ AnimatedSizePerSample > 0
    /\ clip.num_samples = MaxSamples
    /\ compressed_clip.size = ExpectedBufferSize

\* C8: the Allocator::allocate call compress_clip makes for the
\* artifact buffer receives an alignment of 16.
C8_BufferAlignment16 ==
    \A i \in BufferAllocations : allocator[i].alignment = 16

\* The classes of the tracks of the bone streams after compaction.
StreamClass(is_default, is_constant) ==
    {c \in {"default", "constant", "animated"} :
        \/ c = "default" /\ is_default
        \/ c = "constant" /\ is_constant
        \/ c = "animated" /\ ~is_default /\ ~is_constant}
RotationClass(b) ==
    StreamClass(locals.bone_streams[b].is_rotation_default,
                locals.bone_streams[b].is_rotation_constant)
TranslationClass(b) ==
    StreamClass(locals.bone_streams[b].is_translation_default,
                locals.bone_streams[b].is_translation_constant)

\* The bytes one bone adds to the constant and to the animated region.
PackedRotationSize ==
    CASE settings.rotation_format = "Quat_128" -> 16
      [] settings.rotation_format = "Quat_96" -> 12
      [] settings.rotation_format = "Quat_48" -> 6
      [] settings.rotation_format = "Quat_32" -> 4
PackedTranslationSize ==
    CASE settings.translation_format = "Vector3_96" -> 12
      [] settings.translation_format = "Vector3_48" -> 6
      [] settings.translation_format = "Vector3_32" -> 4
ConstantBytesOfBone(b) ==
    (IF RotationClass(b) = {"constant"} THEN PackedRotationSize ELSE 0)
    + (IF TranslationClass(b) = {"constant"} THEN 12 ELSE 0)
AnimatedBytesOfBone(b) ==
    (IF RotationClass(b) = {"animated"}
     THEN clip.num_samples * PackedRotationSize ELSE 0)
    + (IF TranslationClass(b) = {"animated"}
       THEN clip.num_samples * PackedTranslationSize ELSE 0)
\* C9: in the sizes compress_clip computes a default track counts for no
\* byte, a constant rotation track for one sample at the packed size of the
\* rotation format and a constant translation track for 12 bytes, both in
\* the constant region, and an animated track for num_samples samples at the
\* packed size of its format, in the animated region.
C9_TrackContributions ==
    ReturnedArtifact =>
        /\ locals.constant_data_size
               = SeqSum([b \in 1..clip.num_bones |-> ConstantBytesOfBone(b)])
        /\ locals.animated_data_size
               = SeqSum([b \in 1..clip.num_bones |-> AnimatedBytesOfBone(b)])
        /\ EntriesSize(compressed_clip.constant_track_data)
               = locals.constant_data_size
        /\ EntriesSize(compressed_clip.track_data)
               = locals.animated_data_size
\* A constant translation next to animated translations at a narrower
\* format, and a default track.
C9_Witness ==
    /\ ReturnedArtifact
    /\ clip.num_bones = 2
    /\ settings.translation_format = "Vector3_48"
    /\ settings.rotation_format = "Quat_96"
    /\ RotationClass(1) = {"default"}
    /\ TranslationClass(1) = {"constant"}
    /\ RotationClass(2) = {"constant"}
    /\ TranslationClass(2) = {"animated"}
    /\ locals.constant_data_size = 24
    /\ locals.animated_data_size = 6 * clip.num_samples

\* The tracks of each kind that stay within the threshold of canonical.
NumDefaultRotationTracks ==
    Cardinality({b \in 1..clip.num_bones :
                    RotationTrackIsNearCanonical(clip.bones[b].rotation_track)})
NumDefaultTranslationTracks ==
    Cardinality({b \in 1..clip.num_bones :
                    TranslationTrackIsNearCanonical(clip.bones[b].translation_track)})
\* C10: after compaction every rotation track and every translation track
\* is in exactly one of the classes default, constant, animated; a track
\* whose samples are all within the threshold of the canonical value is
\* default and not constant; per track kind the numbers of default, constant
\* and animated tracks add up to num_bones.
C10_ClassPartition ==
    ReturnedArtifact =>
        /\ \A b \in 1..clip.num_bones :
               /\ Cardinality(RotationClass(b)) = 1
               /\ Cardinality(TranslationClass(b)) = 1
               /\ RotationTrackIsNearCanonical(clip.bones[b].rotation_track)
                      => RotationClass(b) = {"default"}
               /\ TranslationTrackIsNearCanonical(clip.bones[b].translation_track)
                      => TranslationClass(b) = {"default"}
        /\ NumDefaultRotationTracks + locals.num_constant_rotation_tracks
               + locals.num_animated_rotation_tracks = clip.num_bones
        /\ NumDefaultTranslationTracks + locals.num_constant_translation_tracks
               + locals.num_animated_translation_tracks = clip.num_bones
\* A rotation track near the canonical value without being it is default,
\* and a translation track whose samples differ within the threshold is
\* constant.
C10_Witness ==
    /\ ReturnedArtifact
    /\ clip.num_bones = 1
    /\ clip.num_samples = 2
    /\ clip.bones[1].rotation_track = <<NearIdentity, quat_identity>>
    /\ clip.bones[1].translation_track = <<MaxVal, MaxVal - 1>>
    /\ RotationClass(1) = {"default"}
    /\ TranslationClass(1) = {"constant"}
    /\ NumDefaultRotationTracks = 1
    /\ locals.num_constant_rotation_tracks = 0
    /\ locals.num_constant_translation_tracks = 1
    /\ locals.num_animated_translation_tracks = 0

\* -------------------------------- compress_clip, statement by statement
\* The heap behind Allocator::allocate and Allocator::deallocate: a block
\* is live from its _aligned_malloc to its _aligned_free.  Addresses are
\* 1, 2, ...; nullptr is 0.
nullptr == 0
\* _aligned_malloc(size, alignment): a block that is not live.
aligned_malloc_static(heap, size, alignment) ==
    IF alignment = AlignofBoneStreams THEN 1 ELSE 2
aligned_malloc(heap, size, alignment) ==
    CHOOSE a \in 1..(Cardinality(DOMAIN heap) + 1) :
        /\ a \notin DOMAIN heap
        /\ \A b \in 1..(a - 1) : b \in DOMAIN heap
\* The block at ptr becomes live and holds value.
Placed(heap, ptr, value) ==
    [a \in DOMAIN heap \cup {ptr} |-> IF a = ptr THEN value ELSE heap[a]]
aligned_free_leak(heap, ptr) == heap
\* _aligned_free(ptr)
aligned_free(heap, ptr) == [a \in DOMAIN heap \ {ptr} |-> heap[a]]
\* What is read through a pointer; a block that is not live reads as empty.
Load(heap, ptr) == IF ptr \in DOMAIN heap THEN heap[ptr] ELSE <<>>
\* A write through a pointer to a live block.
Store(heap, ptr, value) ==
    IF ptr \in DOMAIN heap THEN [heap EXCEPT ![ptr] = value] ELSE heap

\* ---------------------------------------------------------------- PtrOffset
\* std::numeric_limits<uint16_t>::max()
Max16 == 65535
\* std::numeric_limits<OffsetType>::max(); that of uint32_t is the all-ones
\* pattern InvalidPtrOffset stands for.
numeric_limits_max(offset_type) ==
    IF offset_type = "uint16_t" THEN Max16 ELSE InvalidPtrOffset
\* The high and low 16 bits of a 32 bit pattern.
Hi16(pattern) == (pattern \div (Max16 + 1)) % (Max16 + 1)
Lo16(pattern) == pattern % (Max16 + 1)

\* x & m on naturals.
BitAnd(x, m) == x - BitAndNot(x, m)
\* is_aligned_to(IntegralType value, size_t alignment)
is_aligned_to(value, alignment) == BitAnd(value, alignment - 1) = 0

\* What a call gives: the pointer it returns, or the ACL_ENSURE that
\* stopped it.
Pointer(pointer) == [failed |-> FALSE, message |-> "", pointer |-> pointer]
Ensure(message) == [failed |-> TRUE, message |-> message, pointer |-> nullptr]

\* safe_static_cast<OffsetType>(size_t input)
safe_static_cast_fails(offset_type, input) ==
    offset_type = "uint16_t" /\ ~(input >= 0 /\ input <= Max16)
\* safe_ptr_cast<DestPtrType>(SrcIntegralType input)
safe_ptr_cast(dest_type, input) ==
    IF ~is_aligned_to(input, Alignof(dest_type))
    THEN Ensure("reinterpret_cast would result in an unaligned pointer")
    ELSE Pointer(input)
\* add_offset_to_ptr<OutputPtrType>(ptr, offset)
add_offset_to_ptr(output_type, ptr, offset) ==
    safe_ptr_cast(output_type, ptr + offset)

\* PtrOffset<DataType, OffsetType>(), (size_t value), (InvalidPtrOffset)
PtrOffset(data_type, offset_type, built_from, value) ==
    [data_type |-> data_type, offset_type |-> offset_type,
     built_from |-> built_from,
     failed |-> built_from = "size_t"
                /\ safe_static_cast_fails(offset_type, value),
     m_value |-> CASE built_from = "default" -> 0
                   [] built_from = "size_t" ->
                        IF safe_static_cast_fails(offset_type, value)
                        THEN 0 ELSE value
                   [] built_from = "InvalidPtrOffset" ->
                        numeric_limits_max(offset_type)]
\* is_valid()
is_valid_always(offset) == TRUE
is_valid(offset) == offset.m_value # numeric_limits_max(offset.offset_type)
\* add_to(ptr)
add_to(offset, ptr) ==
    IF ~is_valid(offset) THEN Ensure("Invalid PtrOffset!")
    ELSE add_offset_to_ptr(offset.data_type, ptr, offset.m_value)
\* safe_add_to(ptr)
safe_add_to(offset, ptr) ==
    IF is_valid(offset)
    THEN add_offset_to_ptr(offset.data_type, ptr, offset.m_value)
    ELSE Pointer(nullptr)

\* The buffer compress_clip allocates, before anything is written to it.
RawBuffer == [NullClip EXCEPT !.is_null = FALSE]

\* One call of compress_clip: its arguments, the statement it is at, the
\* calls its allocator has received, its locals, the statements it has run
\* so far, the pointers it took into its buffer and, per bone, the pointers
\* to the sample buffers of the two streams.
Frame(clip_, settings_) ==
    [clip |-> clip_, settings |-> settings_, stage |-> "check",
     allocator |-> <<>>, bone_streams |-> nullptr, locals |-> NoLocals,
     buffer |-> nullptr, result |-> nullptr, trace |-> <<>>,
     pointers |-> <<>>, stream_buffers |-> <<>>]

\* The statement after a statement of compress_clip; the normalization
\* block is entered only with PerClip.
next_stage_finalize_early(stage, settings_) ==
    CASE stage = "check" -> "convert_clip_to_streams"
      [] stage = "convert_clip_to_streams" -> "convert_rotation_streams"
      [] stage = "convert_rotation_streams" -> "compact_constant_streams"
      [] stage = "compact_constant_streams" ->
            IF is_enum_flag_set(settings_.range_reduction, "PerClip")
            THEN "normalize_rotation_streams"
            ELSE "quantize_rotation_streams"
      [] stage = "normalize_rotation_streams" -> "normalize_translation_streams"
      [] stage = "normalize_translation_streams" -> "get_stream_range_data_size"
      [] stage = "get_stream_range_data_size" -> "quantize_rotation_streams"
      [] stage = "quantize_rotation_streams" -> "quantize_translation_streams"
      [] stage = "quantize_translation_streams" -> "get_num_animated_streams"
      [] stage = "get_num_animated_streams" -> "allocate_type_array"
      [] stage = "allocate_type_array" -> "make_compressed_clip"
      [] stage = "make_compressed_clip" -> "get_header"
      [] stage = "get_header" -> "write_default_track_bitset"
      [] stage = "write_default_track_bitset" -> "write_constant_track_bitset"
      [] stage = "write_constant_track_bitset" -> "write_constant_track_data"
      [] stage = "write_constant_track_data" -> "finalize_compressed_clip"
      [] stage = "finalize_compressed_clip" -> "write_animated_track_data"
      [] stage = "write_animated_track_data" -> "write_range_track_data"
      [] stage = "write_range_track_data" -> "deallocate_type_array"
      [] stage = "deallocate_type_array" -> "return"
      [] stage = "return" -> "returned"
next_stage(stage, settings_) ==
    CASE stage = "check" -> "convert_clip_to_streams"
      [] stage = "convert_clip_to_streams" -> "convert_rotation_streams"
      [] stage = "convert_rotation_streams" -> "compact_constant_streams"
      [] stage = "compact_constant_streams" ->
            IF is_enum_flag_set(settings_.range_reduction, "PerClip")
            THEN "normalize_rotation_streams"
            ELSE "quantize_rotation_streams"
      [] stage = "normalize_rotation_streams" -> "normalize_translation_streams"
      [] stage = "normalize_translation_streams" -> "get_stream_range_data_size"
      [] stage = "get_stream_range_data_size" -> "quantize_rotation_streams"
      [] stage = "quantize_rotation_streams" -> "quantize_translation_streams"
      [] stage = "quantize_translation_streams" -> "get_num_animated_streams"
      [] stage = "get_num_animated_streams" -> "allocate_type_array"
      [] stage = "allocate_type_array" -> "make_compressed_clip"
      [] stage = "make_compressed_clip" -> "get_header"
      [] stage = "get_header" -> "write_default_track_bitset"
      [] stage = "write_default_track_bitset" -> "write_constant_track_bitset"
      [] stage = "write_constant_track_bitset" -> "write_constant_track_data"
      [] stage = "write_constant_track_data" -> "write_animated_track_data"
      [] stage = "write_animated_track_data" -> "write_range_track_data"
      [] stage = "write_range_track_data" -> "finalize_compressed_clip"
      [] stage = "finalize_compressed_clip" -> "deallocate_type_array"
      [] stage = "deallocate_type_array" -> "return"
      [] stage = "return" -> "returned"

\* The call has run the statement it was at and is at the next one.
Ran(frame) ==
    [frame EXCEPT !.stage = next_stage(frame.stage, frame.settings),
                  !.trace = Append(@, frame.stage)]

\* if (num_bones == 0 || num_samples == 0) return nullptr; and the
\* translation format check
Check(i) ==
    /\ threads[i].stage = "check"
    /\ LET frame == threads[i] IN
         threads' = [threads EXCEPT ![i] =
            IF fails_empty_clip(frame.clip)
               \/ fails_translation_format(frame.settings)
            THEN [frame EXCEPT !.stage = "returned", !.result = nullptr,
                               !.trace = Append(@, "check")]
            ELSE Ran(frame)]
    /\ UNCHANGED memory
    /\ UNCHANGED <<toolVars, trackVars, writerVars, ptrVars, lifeVars, pureVars>>

\* The heap and the buffer pointers of the streams of a call.
StreamHeap(heap, pointers) == [heap |-> heap, pointers |-> pointers]
NoStreamBuffers == [rotations |-> nullptr, translations |-> nullptr]
\* The sample buffer of one stream is replaced: the new buffer is
\* allocated and filled with the samples, the one it replaces freed.  A
\* stream without samples holds no buffer.
replace_buffer(state, bone, kind, samples, size) ==
    LET old == state.pointers[bone][kind]
        new == IF size > 0
               THEN aligned_malloc(state.heap, size, DEFAULT_ALIGNMENT)
               ELSE nullptr
        placed == IF size > 0 THEN Placed(state.heap, new, samples)
                  ELSE state.heap
    IN StreamHeap(IF old # nullptr THEN aligned_free(placed, old) ELSE placed,
                  [state.pointers EXCEPT ![bone][kind] = new])
\* The buffers of the streams a pass rewrote are replaced, bone by bone,
\* the rotations then the translations.
RECURSIVE replace_buffers(_, _, _, _, _)
replace_buffers(state, after, rotations_rewritten, translations_rewritten, bone) ==
    IF bone > Len(after) THEN state
    ELSE LET rotations_done ==
                 IF rotations_rewritten[bone]
                 THEN replace_buffer(state, bone, "rotations",
                                     after[bone].rotations,
                                     rotations_size(after[bone]))
                 ELSE state
             translations_done ==
                 IF translations_rewritten[bone]
                 THEN replace_buffer(rotations_done, bone, "translations",
                                     after[bone].translations,
                                     translations_size(after[bone]))
                 ELSE rotations_done
         IN replace_buffers(translations_done, after, rotations_rewritten,
                            translations_rewritten, bone + 1)
\* The buffers that were not replaced hold the samples of their streams.
written_in_place(state, after) ==
    [a \in DOMAIN state.heap |->
        IF \E b \in DOMAIN after : state.pointers[b].rotations = a
        THEN after[CHOOSE b \in DOMAIN after :
                       state.pointers[b].rotations = a].rotations
        ELSE IF \E b \in DOMAIN after : state.pointers[b].translations = a
        THEN after[CHOOSE b \in DOMAIN after :
                       state.pointers[b].translations = a].translations
        ELSE state.heap[a]]

\* BoneStreams* bone_streams = convert_clip_to_streams(allocator, clip, skeleton)
ConvertClipToStreams(i) ==
    /\ threads[i].stage = "convert_clip_to_streams"
    /\ LET frame == threads[i]
           call == allocate_type_array("BoneStreams", "bone_streams",
                                       frame.clip.num_bones, <<>>)
           ptr == aligned_malloc(memory, call.num_elements, call.alignment)
           streams == convert_clip_to_streams(frame.clip)
           built == replace_buffers(
                        StreamHeap(Placed(memory, ptr, streams),
                                   [b \in DOMAIN streams |-> NoStreamBuffers]),
                        streams, Always(streams), Always(streams), 1)
       IN /\ memory' = built.heap
          /\ threads' = [threads EXCEPT ![i] =
                [Ran(frame) EXCEPT
                    !.bone_streams = ptr,
                    !.stream_buffers = built.pointers,
                    !.allocator =
                        @ \o convert_clip_to_streams_calls(frame.clip)]]
    /\ UNCHANGED <<toolVars, trackVars, writerVars, ptrVars, lifeVars, pureVars>>

\* A statement of the call that rewrites its streams: the streams it
\* leaves, the streams whose buffer it replaces and the allocator calls it
\* makes for them.
StreamPass(i, stage, streams_after, rotations_rewritten, translations_rewritten, calls) ==
    /\ threads[i].stage = stage
    /\ LET frame == threads[i]
           replaced == replace_buffers(
                           StreamHeap(memory, frame.stream_buffers),
                           streams_after, rotations_rewritten,
                           translations_rewritten, 1)
       IN /\ memory' = Store(written_in_place(replaced, streams_after),
                             frame.bone_streams, streams_after)
          /\ threads' = [threads EXCEPT ![i] =
                [Ran(frame) EXCEPT !.stream_buffers = replaced.pointers,
                                   !.allocator = @ \o calls]]
    /\ UNCHANGED <<toolVars, trackVars, writerVars, ptrVars, lifeVars, pureVars>>

\* convert_rotation_streams(allocator, bone_streams, num_bones,
\* settings.rotation_format)
ConvertRotationStreams(i) ==
    LET before == Load(memory, threads[i].bone_streams)
        rotation_format == threads[i].settings.rotation_format
    IN StreamPass(i, "convert_rotation_streams",
           convert_rotation_streams(before, rotation_format),
           IF rotation_format = "Quat_128" THEN Never(before)
           ELSE Always(before),
           Never(before),
           convert_rotation_streams_calls(before, rotation_format))
\* compact_constant_streams(allocator, bone_streams, num_bones, 0.00001)
CompactConstantStreams(i) ==
    LET before == Load(memory, threads[i].bone_streams)
        after == compact_constant_streams(before, ConstantThreshold)
    IN StreamPass(i, "compact_constant_streams", after,
           [b \in DOMAIN after |-> ~is_rotation_animated(after[b])],
           [b \in DOMAIN after |-> ~is_translation_animated(after[b])],
           compact_constant_streams_calls(before, ConstantThreshold))
\* normalize_rotation_streams(bone_streams, num_bones,
\* settings.range_reduction, settings.rotation_format)
NormalizeRotationStreams(i) ==
    LET before == Load(memory, threads[i].bone_streams)
    IN StreamPass(i, "normalize_rotation_streams",
           normalize_rotation_streams(before,
                                      threads[i].settings.range_reduction,
                                      threads[i].settings.rotation_format),
           Never(before), Never(before), <<>>)
\* normalize_translation_streams(bone_streams, num_bones,
\* settings.range_reduction)
NormalizeTranslationStreams(i) ==
    LET before == Load(memory, threads[i].bone_streams)
    IN StreamPass(i, "normalize_translation_streams",
           normalize_translation_streams(before,
                                         threads[i].settings.range_reduction),
           Never(before), Never(before), <<>>)
\* clip_range_data_size = get_stream_range_data_size(...)
GetStreamRangeDataSize(i) ==
    /\ threads[i].stage = "get_stream_range_data_size"
    /\ LET frame == threads[i] IN
         threads' = [threads EXCEPT ![i] =
            [Ran(frame) EXCEPT !.locals.clip_range_data_size =
                get_stream_range_data_size(Load(memory, frame.bone_streams),
                    frame.settings.range_reduction,
                    frame.settings.rotation_format,
                    frame.settings.translation_format)]]
    /\ UNCHANGED memory
    /\ UNCHANGED <<toolVars, trackVars, writerVars, ptrVars, lifeVars, pureVars>>
\* quantize_rotation_streams(allocator, bone_streams, num_bones,
\* settings.rotation_format)
QuantizeRotationStreams(i) ==
    LET before == Load(memory, threads[i].bone_streams)
        rotation_format == threads[i].settings.rotation_format
    IN StreamPass(i, "quantize_rotation_streams",
           quantize_rotation_streams(before, rotation_format),
           [b \in DOMAIN before |-> is_rotation_animated(before[b])],
           Never(before),
           quantize_rotation_streams_calls(before, rotation_format))
\* quantize_translation_streams(allocator, bone_streams, num_bones,
\* settings.translation_format)
QuantizeTranslationStreams(i) ==
    LET before == Load(memory, threads[i].bone_streams)
        translation_format == threads[i].settings.translation_format
    IN StreamPass(i, "quantize_translation_streams",
           quantize_translation_streams(before, translation_format),
           Never(before),
           [b \in DOMAIN before |-> is_translation_animated(before[b])],
           quantize_translation_streams_calls(before, translation_format))

\* get_num_animated_streams and the sizes computed from its counts, up to
\* buffer_size
GetNumAnimatedStreams(i) ==
    /\ threads[i].stage = "get_num_animated_streams"
    /\ LET frame == threads[i] IN
         threads' = [threads EXCEPT ![i] =
            [Ran(frame) EXCEPT !.locals =
                compress_sizes(frame.clip, frame.settings,
                               Load(memory, frame.bone_streams))]]
    /\ UNCHANGED memory
    /\ UNCHANGED <<toolVars, trackVars, writerVars, ptrVars, lifeVars, pureVars>>

\* uint8_t* buffer = allocate_type_array<uint8_t>(allocator, buffer_size, 16)
AllocateTypeArray(i) ==
    /\ threads[i].stage = "allocate_type_array"
    /\ LET frame == threads[i]
           call == allocate_type_array("uint8_t", "buffer",
                       frame.locals.buffer_size, <<Arg("int", 16)>>)
           ptr == aligned_malloc(memory, call.num_elements, call.alignment)
       IN /\ memory' = Placed(memory, ptr, RawBuffer)
          /\ threads' = [threads EXCEPT ![i] =
                [Ran(frame) EXCEPT !.buffer = ptr,
                                   !.allocator = Append(@, call)]]
    /\ UNCHANGED <<toolVars, trackVars, writerVars, ptrVars, lifeVars, pureVars>>

\* A statement of the call that writes to its buffer.
BufferWrite(i, stage, buffer_after) ==
    /\ threads[i].stage = stage
    /\ memory' = Store(memory, threads[i].buffer, buffer_after)
    /\ threads' = [threads EXCEPT ![i] = Ran(threads[i])]
    /\ UNCHANGED <<toolVars, trackVars, writerVars, ptrVars, lifeVars, pureVars>>

\* make_compressed_clip(buffer, buffer_size, AlgorithmType8::UniformlySampled)
MakeCompressedClip(i) ==
    BufferWrite(i, "make_compressed_clip",
        [Load(memory, threads[i].buffer) EXCEPT
            !.size = threads[i].locals.buffer_size,
            !.algorithm_type = "UniformlySampled"])
\* FullPrecisionHeader& header = get_full_precision_header(*compressed_clip)
\* and the assignments to its fields
GetHeader(i) ==
    /\ threads[i].stage = "get_header"
    /\ LET frame == threads[i]
           header == fill_header(frame.clip, frame.settings, frame.locals)
       IN /\ memory' = Store(memory, frame.buffer,
                 [Load(memory, frame.buffer) EXCEPT !.header = header])
          /\ threads' = [threads EXCEPT ![i] =
                [Ran(frame) EXCEPT !.locals.header_as_filled = header]]
    /\ UNCHANGED <<toolVars, trackVars, writerVars, ptrVars, lifeVars, pureVars>>
WriteDefaultTrackBitset(i) ==
    BufferWrite(i, "write_default_track_bitset",
        [Load(memory, threads[i].buffer) EXCEPT !.default_tracks_bitset =
            write_default_track_bitset(Load(memory, threads[i].bone_streams),
                                       threads[i].locals.bitset_size)])
WriteConstantTrackBitset(i) ==
    BufferWrite(i, "write_constant_track_bitset",
        [Load(memory, threads[i].buffer) EXCEPT !.constant_tracks_bitset =
            write_constant_track_bitset(Load(memory, threads[i].bone_streams),
                                        threads[i].locals.bitset_size)])
\* An offset field of the header as the PtrOffset32 it is.
HeaderPtrOffset(data_type, value) ==
    IF value = InvalidPtrOffset
    THEN PtrOffset(data_type, "uint32_t", "InvalidPtrOffset", 0)
    ELSE PtrOffset(data_type, "uint32_t", "size_t", value)
\* The address of the header of the buffer of the call: right after the
\* preamble, in a buffer aligned to 16.
HeaderAddress(frame) == 16 * frame.buffer + SizeofCompressedClip
\* header.get_constant_track_data(), get_track_data(), get_clip_range_data():
\* the offset the header holds at the call, added to the header address.
TakePointer(frame, region, offset) ==
    [region |-> region,
     offset |-> offset,
     stage |-> frame.stage,
     pointer |-> add_to(HeaderPtrOffset("uint8_t", offset),
                        HeaderAddress(frame))]
\* A statement of the call that either takes the pointer to a region and
\* writes the region, or replaces the offset of the region by the sentinel;
\* a failed ACL_ENSURE in add_to stops the call.
RegionWrite(i, stage, has_region, region, offset, buffer_written, buffer_invalid) ==
    /\ threads[i].stage = stage
    /\ LET frame == threads[i]
           taken == TakePointer(frame, region, offset)
       IN IF ~has_region
          THEN /\ memory' = Store(memory, frame.buffer, buffer_invalid)
               /\ threads' = [threads EXCEPT ![i] = Ran(frame)]
          ELSE IF taken.pointer.failed
          THEN /\ memory' = memory
               /\ threads' = [threads EXCEPT ![i] =
                      [frame EXCEPT !.stage = "stopped",
                                    !.pointers = Append(@, taken)]]
          ELSE /\ memory' = Store(memory, frame.buffer, buffer_written)
               /\ threads' = [threads EXCEPT ![i] =
                      [Ran(frame) EXCEPT !.pointers = Append(@, taken)]]
    /\ UNCHANGED <<toolVars, trackVars, writerVars, ptrVars, lifeVars, pureVars>>
\* if (constant_data_size > 0) write_constant_track_data(...);
\* else header.constant_track_data_offset = InvalidPtrOffset();
WriteConstantTrackData(i) ==
    LET blob == Load(memory, threads[i].buffer) IN
    RegionWrite(i, "write_constant_track_data",
        threads[i].locals.constant_data_size > 0,
        "constant_track_data", blob.header.constant_track_data_offset,
        [blob EXCEPT !.constant_track_data =
            write_constant_track_data(Load(memory, threads[i].bone_streams))],
        [blob EXCEPT !.header.constant_track_data_offset = InvalidPtrOffset])
\* if (animated_data_size > 0) write_animated_track_data(...);
\* else header.track_data_offset = InvalidPtrOffset();
WriteAnimatedTrackData(i) ==
    LET blob == Load(memory, threads[i].buffer) IN
    RegionWrite(i, "write_animated_track_data",
        threads[i].locals.animated_data_size > 0,
        "track_data", blob.header.track_data_offset,
        [blob EXCEPT !.track_data =
            write_animated_track_data(Load(memory, threads[i].bone_streams))],
        [blob EXCEPT !.header.track_data_offset = InvalidPtrOffset])
\* if (is_enum_flag_set(settings.range_reduction, PerClip))
\* write_range_track_data(...); else header.clip_range_data_offset =
\* InvalidPtrOffset();
WriteRangeTrackData(i) ==
    LET blob == Load(memory, threads[i].buffer) IN
    RegionWrite(i, "write_range_track_data",
        is_enum_flag_set(threads[i].settings.range_reduction, "PerClip"),
        "clip_range_data", blob.header.clip_range_data_offset,
        [blob EXCEPT !.clip_range_data =
            write_range_track_data(Load(memory, threads[i].bone_streams),
                threads[i].settings.range_reduction,
                threads[i].settings.rotation_format,
                threads[i].settings.translation_format)],
        [blob EXCEPT !.header.clip_range_data_offset = InvalidPtrOffset])
\* finalize_compressed_clip(*compressed_clip)
FinalizeCompressedClip(i) ==
    BufferWrite(i, "finalize_compressed_clip",
        [Load(memory, threads[i].buffer) EXCEPT !.is_finalized = TRUE])

\* deallocate_type_array(allocator, bone_streams, num_bones): BoneStreams
\* is not trivially destructible, so every element is destroyed, which
\* deallocates the buffers its streams still hold, and then the array is
\* deallocated.
DeallocateTypeArray(i) ==
    /\ threads[i].stage = "deallocate_type_array"
    /\ LET frame == threads[i]
           streams == Load(memory, frame.bone_streams)
           none == [b \in DOMAIN streams |-> NoStreams]
           destroyed == replace_buffers(
                            StreamHeap(memory, frame.stream_buffers), none,
                            Always(none), Always(none), 1)
       IN /\ memory' = aligned_free(destroyed.heap, frame.bone_streams)
          /\ threads' = [threads EXCEPT ![i] =
                [Ran(frame) EXCEPT
                    !.stream_buffers = destroyed.pointers,
                    !.allocator =
                        (@ \o destroy_bone_streams_calls(streams))
                        \o <<deallocate_type_array("bone_streams",
                                                   frame.clip.num_bones)>>]]
    /\ UNCHANGED <<toolVars, trackVars, writerVars, ptrVars, lifeVars, pureVars>>

\* return compressed_clip
Return(i) ==
    /\ threads[i].stage = "return"
    /\ threads' = [threads EXCEPT ![i] =
          [Ran(threads[i]) EXCEPT !.result = threads[i].buffer]]
    /\ UNCHANGED memory
    /\ UNCHANGED <<toolVars, trackVars, writerVars, ptrVars, lifeVars, pureVars>>

\* The clips of the calls run statement by statement: of at most one bone,
\* empty or of MaxSamples samples, a track of each class.
StageClips ==
    UNION {ShapeClips(n, s) : n \in 0..1, s \in {0, MaxSamples}}
\* The clips and settings of two calls run side by side: one bone, its
\* tracks constant or animated; the first call with the reference formats
\* and no range reduction, the second with narrow formats and all of it.
PairClips ==
    Clips(1, MaxSamples,
          ShapeRotationTracks(MaxSamples)
              \ {[k \in 1..MaxSamples |-> quat_identity]},
          ShapeTracks(MaxSamples) \ {[k \in 1..MaxSamples |-> 0]})
NarrowSettings ==
    [rotation_format |-> "Quat_48", translation_format |-> "Vector3_48",
     range_reduction |-> {"PerClip", "Rotations", "Translations"}]

\* try_algorithm and find_max_error are not running.
NoTool ==
    /\ clip = <<>>
    /\ settings = <<>>
    /\ pc = "idle"
    /\ allocator = <<>>
    /\ compressed_clip = NullClip
    /\ locals = NoLocals
    /\ sample_tick = 0
    /\ lossy_pose = <<>>
    /\ sample_bone_index = 0
    /\ test_transform = <<>>
    /\ image = <<>>

\* One call on any of the clips with any settings, or two calls on two
\* clips, each with its own allocator.
StageInit ==
    /\ NoTool
    /\ NoTrack
    /\ NoWriter
    /\ NoPtrOffset
    /\ NoLife
    /\ NoPure
    /\ memory = <<>>
    /\ \/ \E c \in StageClips, s \in CompressionSettings :
            threads = <<Frame(c, s)>>
       \/ \E c1 \in PairClips, c2 \in PairClips :
            threads = <<Frame(c1, DefaultCompressionSettings),
                        Frame(c2, NarrowSettings)>>

StageNext ==
    \E i \in DOMAIN threads :
        \/ Check(i)
        \/ ConvertClipToStreams(i)
        \/ ConvertRotationStreams(i)
        \/ CompactConstantStreams(i)
        \/ NormalizeRotationStreams(i)
        \/ NormalizeTranslationStreams(i)
        \/ GetStreamRangeDataSize(i)
        \/ QuantizeRotationStreams(i)
        \/ QuantizeTranslationStreams(i)
        \/ GetNumAnimatedStreams(i)
        \/ AllocateTypeArray(i)
        \/ MakeCompressedClip(i)
        \/ GetHeader(i)
        \/ WriteDefaultTrackBitset(i)
        \/ WriteConstantTrackBitset(i)
        \/ WriteConstantTrackData(i)
        \/ WriteAnimatedTrackData(i)
        \/ WriteRangeTrackData(i)
        \/ FinalizeCompressedClip(i)
        \/ DeallocateTypeArray(i)
        \/ Return(i)

StageSpec == StageInit /\ [][StageNext]_vars

\* What the call of a frame returns when it runs alone.
Alone(frame) == compress_clip(frame.clip, frame.settings)
\* The call has returned what it returns alone, with the same allocator
\* calls and locals.
ReturnsAsAlone(i) ==
    \E alone \in {Alone(threads[i])} :
        /\ (threads[i].result = nullptr) = alone.compressed_clip.is_null
        /\ threads[i].result # nullptr =>
              Load(memory, threads[i].result) = alone.compressed_clip
        /\ threads[i].allocator = alone.calls
StageRefinesCompressClip ==
    \A i \in DOMAIN threads :
        threads[i].stage = "returned" => ReturnsAsAlone(i)

\* ------------------------------------------------- the track state machine
TrackKinds == {"rotation", "translation"}
\* The state of one track of a BoneStreams: its class marks, what the
\* passes have done to it and the samples it holds.
TrackOf(bone_stream, kind) ==
    IF kind = "rotation"
    THEN [is_default |-> bone_stream.is_rotation_default,
          is_constant |-> bone_stream.is_rotation_constant,
          is_normalized |-> bone_stream.are_rotations_normalized,
          is_quantized |-> bone_stream.are_rotations_quantized,
          samples |-> bone_stream.rotations]
    ELSE [is_default |-> bone_stream.is_translation_default,
          is_constant |-> bone_stream.is_translation_constant,
          is_normalized |-> bone_stream.are_translations_normalized,
          is_quantized |-> bone_stream.are_translations_quantized,
          samples |-> bone_stream.translations]
\* The call has run the statement.
HasRun(frame, stage) == \E k \in DOMAIN frame.trace : frame.trace[k] = stage
\* The call holds its BoneStreams array: it has built it and not yet
\* deallocated it.
HasStreams(heap, frame) ==
    /\ HasRun(frame, "convert_clip_to_streams")
    /\ ~HasRun(frame, "deallocate_type_array")
    /\ frame.bone_streams \in DOMAIN heap
StreamsOf(heap, frame) == Load(heap, frame.bone_streams)
\* PerClip range reduction is enabled for the kind.
RangeReducedKind(settings_, kind) ==
    are_enum_flags_set(settings_.range_reduction,
        {"PerClip", IF kind = "rotation" THEN "Rotations" ELSE "Translations"})
\* The call has run the quantization pass of the kind.
HasQuantized(frame, kind) ==
    HasRun(frame, IF kind = "rotation" THEN "quantize_rotation_streams"
                  ELSE "quantize_translation_streams")

\* A default track is never normalized or quantized.
DefaultTrackOk(track) ==
    track.is_default => ~track.is_normalized /\ ~track.is_quantized
\* An animated track is normalized only with PerClip range reduction of its
\* kind, and is quantized once the quantization pass of its kind has run.
AnimatedTrackOk(frame, track, kind) ==
    ~track.is_default /\ ~track.is_constant =>
        /\ track.is_normalized => RangeReducedKind(frame.settings, kind)
        /\ HasQuantized(frame, kind) => track.is_quantized
\* One step of a track: no mark or pass is undone, normalization does not
\* come after quantization, and a quantized track and a default or
\* constant track are not written again.
TrackStep(before, after) ==
    /\ before.is_default => after.is_default
    /\ before.is_constant => after.is_constant
    /\ before.is_normalized => after.is_normalized
    /\ before.is_quantized => after.is_quantized
    /\ after.is_normalized /\ ~before.is_normalized => ~after.is_quantized
    /\ before.is_quantized => after.samples = before.samples
    /\ before.is_default \/ before.is_constant =>
          after.samples = before.samples
    /\ before.is_normalized \/ before.is_quantized =>
          /\ after.is_default = before.is_default
          /\ after.is_constant = before.is_constant
\* Every track of every call takes only such steps.
TracksStep ==
    \A i \in DOMAIN threads :
        HasStreams(memory, threads[i]) /\ HasStreams(memory', threads'[i]) =>
            \A b \in DOMAIN StreamsOf(memory, threads[i]), kind \in TrackKinds :
                b \in DOMAIN StreamsOf(memory', threads'[i]) /\
                TrackStep(TrackOf(StreamsOf(memory, threads[i])[b], kind),
                          TrackOf(StreamsOf(memory', threads'[i])[b], kind))

\* A constant track, like a default one, is never normalized or quantized.
ConstantTrackOk(track) ==
    track.is_constant => ~track.is_normalized /\ ~track.is_quantized
TracksOk ==
    \A i \in DOMAIN threads :
        HasStreams(memory, threads[i]) =>
            \A b \in DOMAIN StreamsOf(memory, threads[i]), kind \in TrackKinds :
                LET track == TrackOf(StreamsOf(memory, threads[i])[b], kind)
                IN /\ DefaultTrackOk(track)
                   /\ ConstantTrackOk(track)
                   /\ AnimatedTrackOk(threads[i], track, kind)
\* C11: during one compress_clip call each track follows the state machine:
\* a track marked default or constant is never normalized or quantized
\* afterwards and keeps the samples it was left with; an animated track is
\* normalized only when PerClip range reduction is enabled for its kind and
\* is quantized once, after normalization if any; no track moves back.
C11_TrackStateMachine == []TracksOk /\ [][TracksStep]_vars
\* A call has run both quantization passes on a bone whose rotation track
\* is constant, and was left as it was, and whose translation track is
\* animated, and was normalized and then quantized.
C11_Witness ==
    \E i \in DOMAIN threads :
        /\ HasStreams(memory, threads[i])
        /\ HasQuantized(threads[i], "rotation")
        /\ HasQuantized(threads[i], "translation")
        /\ \E b \in DOMAIN StreamsOf(memory, threads[i]) :
              LET r == TrackOf(StreamsOf(memory, threads[i])[b], "rotation")
                  t == TrackOf(StreamsOf(memory, threads[i])[b], "translation")
              IN /\ r.is_constant /\ ~r.is_quantized /\ ~r.is_normalized
                 /\ Len(r.samples) = 1
                 /\ ~t.is_default /\ ~t.is_constant
                 /\ t.is_normalized /\ t.is_quantized

\* ------------------------------------------------- the order of the stages
\* The stages in the order claimed, by the statements that make them up:
\* stream build, rotation conversion, constant compaction, normalization
\* (only with PerClip), quantization, size computation, allocation, header
\* fill, bitset writes, region writes, finalization; then the release of
\* the streams and the return.
StageOrder(settings_) ==
    <<"check", "convert_clip_to_streams", "convert_rotation_streams",
      "compact_constant_streams">>
    \o (IF is_enum_flag_set(settings_.range_reduction, "PerClip")
        THEN <<"normalize_rotation_streams", "normalize_translation_streams",
               "get_stream_range_data_size">>
        ELSE <<>>)
    \o <<"quantize_rotation_streams", "quantize_translation_streams",
         "get_num_animated_streams", "allocate_type_array",
         "make_compressed_clip", "get_header",
         "write_default_track_bitset", "write_constant_track_bitset",
         "write_constant_track_data", "write_animated_track_data",
         "write_range_track_data", "finalize_compressed_clip",
         "deallocate_type_array", "return">>
IsPrefix(s, t) ==
    /\ Len(s) <= Len(t)
    /\ \A k \in 1..Len(s) : s[k] = t[k]
\* What every call has run so far is a prefix of the order, all of it when
\* it has returned an artifact, and a returned artifact is finalized.
StagesInOrder ==
    \A i \in DOMAIN threads :
        LET frame == threads[i] IN
        /\ IsPrefix(frame.trace, StageOrder(frame.settings))
        /\ frame.result # nullptr =>
              /\ frame.trace = StageOrder(frame.settings)
              /\ Load(memory, frame.result).is_finalized
\* Once a call has finalized its buffer, no step changes the buffer.
FinalizedBufferKept ==
    \A i \in DOMAIN threads :
        HasRun(threads[i], "finalize_compressed_clip") =>
            /\ threads'[i].buffer = threads[i].buffer
            /\ Load(memory', threads[i].buffer) = Load(memory, threads[i].buffer)
\* C12: the stages of compress_clip run in strict linear order, stream
\* build, rotation conversion, constant compaction, normalization (only
\* with PerClip), quantization, size computation, allocation, header fill,
\* bitset writes, region writes, finalization; finalize_compressed_clip
\* runs after every write to the buffer and every change of a header
\* offset, and nothing modifies the buffer after it.
C12_StagesInOrder == []StagesInOrder /\ [][FinalizedBufferKept]_vars
\* A call with PerClip range reduction has run every stage and returned
\* its finalized buffer, whose range offset was left in place and whose
\* constant offset was replaced by the sentinel.
C12_Witness ==
    \E i \in DOMAIN threads :
        /\ threads[i].stage = "returned"
        /\ threads[i].result # nullptr
        /\ is_enum_flag_set(threads[i].settings.range_reduction, "PerClip")
        /\ HasRun(threads[i], "normalize_rotation_streams")
        /\ Load(memory, threads[i].result).is_finalized
        /\ Load(memory, threads[i].result).header.constant_track_data_offset
              = InvalidPtrOffset
        /\ Load(memory, threads[i].result).clip_range_data # <<>>

\* ------------------------------------------------ allocations of one call
\* How many calls of the kind an allocator received for the array.
CountCalls(calls, op, tag) ==
    Cardinality({k \in DOMAIN calls : calls[k].op = op /\ calls[k].tag = tag})
\* The number of calls of the kind an allocator received for a block of
\* the size.
CountCallsOfSize(calls, op, tag, size) ==
    Cardinality({k \in DOMAIN calls :
                    /\ calls[k].op = op /\ calls[k].tag = tag
                    /\ calls[k].num_elements = size})
\* Every buffer allocated for the streams was deallocated, at its size.
StreamBuffersReleased(calls, tag) ==
    \A size \in {calls[k].num_elements : k \in DOMAIN calls} :
        CountCallsOfSize(calls, "allocate", tag, size)
            = CountCallsOfSize(calls, "deallocate", tag, size)
\* A returned call has allocated and deallocated its BoneStreams array
\* once each, has deallocated every sample buffer it allocated for a
\* stream, and has allocated, not deallocated, the buffer it returns,
\* which is live; a call that returned nullptr has made no allocator call.
CallBalanced(heap, frame) ==
    IF frame.result = nullptr THEN frame.allocator = <<>>
    ELSE /\ CountCalls(frame.allocator, "allocate", "bone_streams") = 1
         /\ CountCalls(frame.allocator, "deallocate", "bone_streams") = 1
         /\ StreamBuffersReleased(frame.allocator, "rotations")
         /\ StreamBuffersReleased(frame.allocator, "translations")
         /\ CountCalls(frame.allocator, "allocate", "buffer") = 1
         /\ CountCalls(frame.allocator, "deallocate", "buffer") = 0
         /\ \A k \in DOMAIN frame.allocator :
               frame.allocator[k].tag
                   \in {"bone_streams", "rotations", "translations", "buffer"}
         /\ \A b \in DOMAIN frame.stream_buffers :
               frame.stream_buffers[b] = NoStreamBuffers
         /\ frame.result \in DOMAIN heap
         /\ frame.result = frame.buffer
AllReturned == \A i \in DOMAIN threads : threads[i].stage = "returned"
\* C13: when compress_clip returns an artifact, the BoneStreams array it
\* allocated has been deallocated exactly once and the only allocation of
\* the call still outstanding is the returned buffer; when it returns null
\* no allocation of the call is outstanding.
C13_AllocationsBalanced ==
    /\ \A i \in DOMAIN threads :
          threads[i].stage = "returned" => CallBalanced(memory, threads[i])
    /\ AllReturned =>
          DOMAIN memory = {threads[i].result : i \in DOMAIN threads} \ {nullptr}
\* Two calls have returned an artifact each, after allocating and
\* deallocating sample buffers for their streams, and the two artifacts
\* are the only live blocks.
C13_Witness ==
    /\ Len(threads) = 2
    /\ AllReturned
    /\ threads[1].result # nullptr /\ threads[2].result # nullptr
    /\ threads[1].result # threads[2].result
    /\ CountCalls(threads[1].allocator, "deallocate", "rotations") >= 2
    /\ CountCalls(threads[2].allocator, "deallocate", "translations") >= 2
    /\ Cardinality(DOMAIN memory) = 2

\* --------------------------------------------------- two calls interleaved
\* The blocks a call holds: its BoneStreams array from its allocation to
\* its deallocation, the sample buffers of its streams, its buffer from
\* its allocation on.
OwnedBlocks(frame) ==
    (IF HasRun(frame, "convert_clip_to_streams")
        /\ ~HasRun(frame, "deallocate_type_array")
     THEN {frame.bone_streams} ELSE {})
    \cup ({frame.stream_buffers[b].rotations :
               b \in DOMAIN frame.stream_buffers} \ {nullptr})
    \cup ({frame.stream_buffers[b].translations :
               b \in DOMAIN frame.stream_buffers} \ {nullptr})
    \cup (IF HasRun(frame, "allocate_type_array") THEN {frame.buffer} ELSE {})
\* A step of one call leaves the arguments, locals and position of every
\* other call, and the blocks the other call holds, as they were.
OtherCallsKept ==
    \A i \in DOMAIN threads, j \in DOMAIN threads :
        i # j /\ threads'[i] # threads[i] =>
            /\ threads'[j] = threads[j]
            /\ \A a \in OwnedBlocks(threads[j]) :
                  a \in DOMAIN memory' /\ memory'[a] = Load(memory, a)
\* C19: two compress_clip calls on two clips, each with its own allocator,
\* may be interleaved statement by statement in any order: a step of one
\* touches only its own locals, streams and buffer, and each call returns
\* the artifact it returns when run alone.
C19_InterleavedCallsIndependent ==
    []StageRefinesCompressClip /\ [][OtherCallsKept]_vars
\* Two calls on different clips with different settings have both returned
\* an artifact after running interleaved: the second built its streams
\* while the first held its own.
C19_Witness ==
    /\ Len(threads) = 2
    /\ AllReturned
    /\ threads[1].clip # threads[2].clip
    /\ threads[1].settings # threads[2].settings
    /\ threads[1].bone_streams = 1 /\ threads[2].bone_streams = 4
    /\ ReturnsAsAlone(1) /\ ReturnsAsAlone(2)
    /\ Load(memory, threads[1].result) # Load(memory, threads[2].result)

\* ------------------------------------------- one bone against the pose
\* The settings of uniform_tests at a wide and a narrow format of each kind.
decoder_tests ==
    {s \in uniform_tests :
        /\ s.rotation_format \in {"Quat_128", "Quat_48"}
        /\ s.translation_format \in {"Vector3_96", "Vector3_48"}}
DecodeInit == InitWith(CoarseClips, decoder_tests)

\* decompress_pose at any time, from before 0 to after the duration: the
\* call of find_max_error with its time drawn from all of them.
DecompressPoseAt ==
    /\ pc \in {"find_max_error", "sampled"}
    /\ \E tick \in SampleTicks :
         /\ sample_tick' = tick
         /\ lossy_pose' = decompress_pose(compressed_clip, tick)
    /\ pc' = "sampled"
    /\ UNCHANGED <<clip, settings, allocator, compressed_clip, locals>>
    /\ UNCHANGED <<sample_bone_index, test_transform, image>>
    /\ UNCHANGED <<stageVars, trackVars, writerVars, ptrVars, lifeVars, pureVars>>
\* decompress_bone for any bone, at the time of the last decompress_pose,
\* whichever it was: the call of find_max_error with its bone and its time
\* drawn from all of them.
DecompressBoneAt ==
    /\ pc = "sampled"
    /\ \E b \in 0..(compressed_clip.header.num_bones - 1) :
         /\ sample_bone_index' = b
         /\ test_transform' = decompress_bone(compressed_clip, sample_tick, b)
    /\ pc' = "bone_sampled"
    /\ UNCHANGED <<clip, settings, allocator, compressed_clip, locals>>
    /\ UNCHANGED <<sample_tick, lossy_pose, image>>
    /\ UNCHANGED <<stageVars, trackVars, writerVars, ptrVars, lifeVars, pureVars>>

\* The steps of try_algorithm and find_max_error, with decompress_pose at
\* every time and decompress_bone at every bone.
DecodeNext == Next \/ DecompressPoseAt \/ DecompressBoneAt
DecodeSpec == DecodeInit /\ [][DecodeNext]_vars

\* C15: for every artifact, time t and bone b < num_bones,
\* decompress_bone(blob, t, b) gives the entry of bone b of
\* decompress_pose(blob, t), the last bone at t = duration included.
C15_BoneMatchesPose ==
    pc = "bone_sampled" =>
        /\ sample_bone_index + 1 \in DOMAIN lossy_pose
        /\ test_transform = lossy_pose[sample_bone_index + 1]
\* decompress_bone has decoded the last bone at the duration of a clip of
\* two or more bones, both tracks of it animated and range reduced, after
\* an animated and a constant track of the first bone.
C15_Witness ==
    /\ pc = "bone_sampled"
    /\ clip.num_bones >= 2
    /\ sample_bone_index = clip.num_bones - 1
    /\ sample_tick = DurationTicks(clip.num_samples)
    /\ is_track_animated(compressed_clip, sample_bone_index * 2)
    /\ is_track_animated(compressed_clip, sample_bone_index * 2 + 1)
    /\ is_track_kind_normalized(compressed_clip, 0)
    /\ is_track_kind_normalized(compressed_clip, 1)
    /\ is_track_animated(compressed_clip, 0)
    /\ is_track_constant(compressed_clip, 1)
    /\ test_transform = lossy_pose[clip.num_bones]

\* ----------------------------------------------------- sampling one track
\* AnimationTrack(): no allocator, no samples.
DefaultTrack(type) ==
    [is_initialized |-> FALSE, num_samples |-> 0, sample_rate |-> 0,
     type |-> type, samples |-> <<>>]
\* AnimationTrack(allocator, num_samples, sample_rate, type), its samples
\* set.
AnimationTrack(num_samples, sample_rate, type, samples) ==
    [is_initialized |-> TRUE, num_samples |-> num_samples,
     sample_rate |-> sample_rate, type |-> type, samples |-> samples]

\* The outcome of a call that ACL_ENSURE stopped, and of one that returned.
Failed(message) == [failed |-> TRUE, message |-> message, value |-> Whole(0)]
Value(value) == [failed |-> FALSE, message |-> "", value |-> value]

\* A Quat_64 or Vector4_64 handed to set_sample: its grid value, whether
\* its components are all finite and whether it has unit length.
Sample64(value, is_finite, is_normalized) ==
    [value |-> value, is_finite |-> is_finite, is_normalized |-> is_normalized]
quat_is_valid(rotation) == rotation.is_finite
quat_is_normalized(rotation) == rotation.is_normalized
vector_is_valid3(translation) == translation.is_finite
\* set_sample(sample_index, value): the message of the first ACL_ENSURE
\* that fails, "" when none does.
set_sample_ensure(track_, sample_index, sample) ==
    IF ~track_.is_initialized THEN "Track is not initialized"
    ELSE IF ~(sample_index < track_.num_samples) THEN "Invalid sample index"
    ELSE IF track_.type = "Rotation"
    THEN (IF ~quat_is_valid(sample) THEN "Invalid rotation"
          ELSE IF ~quat_is_normalized(sample) THEN "Rotation not normalized"
          ELSE "")
    ELSE (IF ~vector_is_valid3(sample) THEN "Invalid translation" ELSE "")
\* set_sample(sample_index, value): the track after the call.
set_sample_first_slot(track_, sample_index, sample) ==
    IF set_sample_ensure(track_, sample_index, sample) # "" THEN track_
    ELSE [track_ EXCEPT !.samples[1] = sample.value]
set_sample(track_, sample_index, sample) ==
    IF set_sample_ensure(track_, sample_index, sample) # "" THEN track_
    ELSE [track_ EXCEPT !.samples[sample_index + 1] = sample.value]
\* get_sample(sample_index)
get_sample(track_, sample_index) ==
    IF ~track_.is_initialized THEN Failed("Track is not initialized")
    ELSE IF ~(sample_index >= 0 /\ sample_index < track_.num_samples)
    THEN Failed("Invalid sample index")
    ELSE Value(Whole(track_.samples[sample_index + 1]))

\* sample_track(sample_time): the keys, the two samples read and their
\* interpolation.
sample_track(track_, tick) ==
    LET keys == calculate_interpolation_keys(track_.num_samples, tick)
        sample0 == get_sample(track_, keys.sample_frame0)
        sample1 == get_sample(track_, keys.sample_frame1)
    IN [sample_time |-> tick,
        keys |-> keys,
        reads |-> IF sample0.failed THEN <<keys.sample_frame0>>
                  ELSE <<keys.sample_frame0, keys.sample_frame1>>,
        failed |-> sample0.failed \/ sample1.failed,
        message |-> IF sample0.failed THEN sample0.message ELSE sample1.message,
        value |-> IF sample0.failed \/ sample1.failed THEN Whole(0)
                  ELSE lerp(sample0.value, sample1.value,
                            keys.interpolation_alpha)]

TrackTypes == {"Rotation", "Translation"}
SampleRates == {1, 30}
\* The tracks: default constructed, or of 1 to MaxSamples samples of any
\* value.
AnimationTracks ==
    {DefaultTrack("Rotation")}
    \cup UNION {{AnimationTrack(n, r, ty, s) : s \in Tracks(n, GridValues)} :
                  n \in 1..MaxSamples, r \in SampleRates, ty \in TrackTypes}

\* The values handed to set_sample.
Samples64 ==
    {Sample64(v, f, n) : v \in GridValues, f \in BOOLEAN, n \in BOOLEAN}

TrackInit ==
    /\ animation_track \in AnimationTracks
    /\ track_sample = <<>>
    /\ track_call = <<>>
    /\ NoTool
    /\ NoThreads
    /\ NoWriter
    /\ NoPtrOffset
    /\ NoLife
    /\ NoPure

\* track.set_sample(sample_index, value)
SetSample ==
    /\ \E sample_index \in 0..MaxSamples, sample \in Samples64 :
          /\ animation_track' =
                set_sample(animation_track, sample_index, sample)
          /\ track_call' =
                [op |-> "set_sample", sample_index |-> sample_index,
                 sample |-> sample,
                 failed |-> set_sample_ensure(animation_track, sample_index,
                                              sample) # "",
                 message |-> set_sample_ensure(animation_track, sample_index,
                                               sample),
                 value |-> Whole(0)]
    /\ track_sample' = <<>>
    /\ UNCHANGED <<toolVars, stageVars, writerVars, ptrVars, lifeVars, pureVars>>
\* track.sample_track(sample_time)
SampleTrack ==
    /\ \E tick \in SampleTicks :
          track_sample' = sample_track(animation_track, tick)
    /\ track_call' = <<>>
    /\ UNCHANGED animation_track
    /\ UNCHANGED <<toolVars, stageVars, writerVars, ptrVars, lifeVars, pureVars>>

\* track.get_sample(sample_index)
GetSample ==
    /\ \E sample_index \in 0..MaxSamples :
          LET got == get_sample(animation_track, sample_index)
          IN track_call' =
                [op |-> "get_sample", sample_index |-> sample_index,
                 sample |-> Sample64(0, TRUE, TRUE),
                 failed |-> got.failed, message |-> got.message,
                 value |-> got.value]
    /\ track_sample' = <<>>
    /\ UNCHANGED animation_track
    /\ UNCHANGED <<toolVars, stageVars, writerVars, ptrVars, lifeVars, pureVars>>

TrackNext == SetSample \/ SampleTrack \/ GetSample
TrackSpec == TrackInit /\ [][TrackNext]_vars

\* A track of one sample or more has been sampled.
Sampled ==
    /\ track_sample # <<>>
    /\ animation_track.is_initialized
    /\ animation_track.num_samples >= 1
    /\ animation_track.sample_rate > 0
\* C16: sampling at any time after the duration gives what sampling at the
\* duration gives, the last sample, and sampling at any time before 0 gives
\* what sampling at 0 gives, the first sample; no error is raised.
C16_SamplingClamped ==
    Sampled =>
        LET duration == DurationTicks(animation_track.num_samples)
            at_end == sample_track(animation_track, duration)
            at_start == sample_track(animation_track, 0)
        IN /\ ~track_sample.failed
           /\ track_sample.sample_time > duration =>
                 /\ track_sample.value = at_end.value
                 /\ FracEq(track_sample.value,
                      Whole(animation_track.samples[animation_track.num_samples]))
           /\ track_sample.sample_time < 0 =>
                 /\ track_sample.value = at_start.value
                 /\ FracEq(track_sample.value, Whole(animation_track.samples[1]))
\* A track of MaxSamples samples, the last different from the one before
\* it, has been sampled after its duration.
C16_Witness ==
    /\ Sampled
    /\ animation_track.num_samples = MaxSamples
    /\ animation_track.samples[MaxSamples] # animation_track.samples[MaxSamples - 1]
    /\ track_sample.sample_time > DurationTicks(MaxSamples)
    /\ ~track_sample.failed
    /\ FracEq(track_sample.value, Whole(animation_track.samples[MaxSamples]))

\* The time clamped to [0, duration], in ticks.
ClampedTick(num_samples, tick) ==
    IF tick < 0 THEN 0
    ELSE IF tick > DurationTicks(num_samples) THEN DurationTicks(num_samples)
    ELSE tick
\* C20: for a track with num_samples >= 1 and sample_rate > 0,
\* sample_track(t) reads exactly frame0 = floor(t' * sample_rate) and
\* frame1 = min(frame0 + 1, num_samples - 1), t' being t clamped to
\* [0, duration], with frame0 <= frame1 <= num_samples - 1 and alpha in
\* [0, 1], so get_sample never fails its 'Invalid sample index' check.
C20_SampleIndexesValid ==
    Sampled =>
        LET num_samples == animation_track.num_samples
            frame0 == ClampedTick(num_samples, track_sample.sample_time)
                        \div TicksPerSample
            frame1 == IF frame0 + 1 < num_samples THEN frame0 + 1
                      ELSE num_samples - 1
            alpha == track_sample.keys.interpolation_alpha
        IN /\ track_sample.reads = <<frame0, frame1>>
           /\ 0 <= frame0 /\ frame0 <= frame1 /\ frame1 <= num_samples - 1
           /\ alpha.den > 0 /\ 0 <= alpha.num /\ alpha.num <= alpha.den
           /\ alpha.num * TicksPerSample
                = alpha.den * (ClampedTick(num_samples, track_sample.sample_time)
                               - frame0 * TicksPerSample)
           /\ ~track_sample.failed
\* A track of MaxSamples samples has been sampled between its last two
\* samples: two different frames were read and alpha is strictly inside
\* (0, 1).
C20_Witness ==
    /\ Sampled
    /\ animation_track.num_samples = MaxSamples
    /\ track_sample.reads = <<MaxSamples - 2, MaxSamples - 1>>
    /\ track_sample.keys.interpolation_alpha.num > 0
    /\ track_sample.keys.interpolation_alpha.num
          < track_sample.keys.interpolation_alpha.den
    /\ ~track_sample.failed

\* ------------------------------------------------------ the output writers
WriterKinds == {"OutputWriterImpl", "RawOutputWriterImpl"}
\* OutputWriterImpl(allocator, num_bones), RawOutputWriterImpl(allocator,
\* num_bones): num_bones transforms, holding whatever the allocation held.
OutputWriter(kind, num_bones, garbage) ==
    [kind |-> kind,
     m_num_bones |-> num_bones,
     m_transforms |-> [b \in 1..num_bones |->
                          Transform(Value64(garbage), Value64(garbage))],
     failed |-> FALSE]

\* write_bone_rotation(bone_index, rotation)
write_bone_rotation_whole_transform(writer, bone_index, rotation) ==
    IF ~(bone_index < writer.m_num_bones) THEN [writer EXCEPT !.failed = TRUE]
    ELSE [writer EXCEPT !.m_transforms[bone_index + 1] =
            Transform(Value64(rotation.value), Value64(rotation.value))]
write_bone_rotation(writer, bone_index, rotation) ==
    IF ~(bone_index < writer.m_num_bones) THEN [writer EXCEPT !.failed = TRUE]
    ELSE [writer EXCEPT !.m_transforms[bone_index + 1].rotation =
            IF writer.kind = "OutputWriterImpl" THEN quat_cast(rotation)
            ELSE rotation]
\* write_bone_translation(bone_index, translation)
write_bone_translation(writer, bone_index, translation) ==
    IF ~(bone_index < writer.m_num_bones) THEN [writer EXCEPT !.failed = TRUE]
    ELSE [writer EXCEPT !.m_transforms[bone_index + 1].translation =
            IF writer.kind = "OutputWriterImpl" THEN vector_cast(translation)
            ELSE translation]

\* The poses delivered to a writer: any number of bones up to MaxBones,
\* each rotation and translation any of two values.
PoseValues == {1, 2}
Poses ==
    UNION {[1..p -> [rotation : PoseValues, translation : PoseValues]] :
              p \in 0..MaxBones}
\* What a writer is handed for a component of the pose: 32 bit components
\* by the decoder, 64 bit components by the raw clip.
Delivered(kind, value) ==
    IF kind = "OutputWriterImpl" THEN Value32(value) ELSE Value64(value)

\* The state: the writer, the pose being delivered to it, the callbacks
\* made so far for this pose and the last one made.
WriterInit ==
    /\ \E kind \in WriterKinds, n \in 0..MaxBones, g \in {0, MaxVal},
          pose \in Poses :
          output_writer = [writer |-> OutputWriter(kind, n, g),
                           pose |-> pose,
                           done |-> {},
                           last_call |-> <<>>]
    /\ NoTool
    /\ NoThreads
    /\ NoTrack
    /\ NoPtrOffset
    /\ NoLife
    /\ NoPure

\* writer.write_bone_rotation(b, q), for a bone of the pose not yet written
WriteBoneRotation ==
    /\ \E b \in 0..(Len(output_writer.pose) - 1) :
          /\ <<b, "rotation">> \notin output_writer.done
          /\ output_writer' =
               [writer |-> write_bone_rotation(output_writer.writer, b,
                              Delivered(output_writer.writer.kind,
                                        output_writer.pose[b + 1].rotation)),
                pose |-> output_writer.pose,
                done |-> output_writer.done \cup {<<b, "rotation">>},
                last_call |-> <<b, "rotation">>]
    /\ UNCHANGED <<toolVars, stageVars, trackVars, ptrVars, lifeVars, pureVars>>
\* writer.write_bone_translation(b, v), for a bone of the pose not yet
\* written
WriteBoneTranslation ==
    /\ \E b \in 0..(Len(output_writer.pose) - 1) :
          /\ <<b, "translation">> \notin output_writer.done
          /\ output_writer' =
               [writer |-> write_bone_translation(output_writer.writer, b,
                              Delivered(output_writer.writer.kind,
                                        output_writer.pose[b + 1].translation)),
                pose |-> output_writer.pose,
                done |-> output_writer.done \cup {<<b, "translation">>},
                last_call |-> <<b, "translation">>]
    /\ UNCHANGED <<toolVars, stageVars, trackVars, ptrVars, lifeVars, pureVars>>

WriterNext == WriteBoneRotation \/ WriteBoneTranslation
WriterSpec == WriterInit /\ [][WriterNext]_vars

\* Every callback of the pose has been made.
PoseDelivered ==
    output_writer.done =
        (0..(Len(output_writer.pose) - 1)) \X {"rotation", "translation"}
\* The transforms hold the pose, for the bones the writer has.
HoldsPose ==
    \A b \in 1..Len(output_writer.pose) :
        b <= output_writer.writer.m_num_bones =>
            output_writer.writer.m_transforms[b] =
                Transform(Value64(output_writer.pose[b].rotation),
                          Value64(output_writer.pose[b].translation))
\* A callback changes the component it is for of the bone it is for and
\* nothing else; one for a bone the writer does not have fails and changes
\* nothing.
CallbackFrame ==
    LET before == output_writer.writer
        after == output_writer'.writer
        bone == output_writer'.last_call[1] + 1
        component == output_writer'.last_call[2]
    IN IF bone > before.m_num_bones
       THEN /\ after.failed
            /\ after.m_transforms = before.m_transforms
       ELSE /\ after.failed = before.failed
            /\ \A b \in 1..before.m_num_bones :
                  /\ b # bone => after.m_transforms[b] = before.m_transforms[b]
                  /\ component = "rotation" =>
                        after.m_transforms[b].translation
                          = before.m_transforms[b].translation
                  /\ component = "translation" =>
                        after.m_transforms[b].rotation
                          = before.m_transforms[b].rotation
\* C17: the writer callbacks may be called in any bone order:
\* write_bone_rotation(b, q) changes only the rotation of bone b and
\* write_bone_translation(b, v) only the translation of bone b, so after
\* one call of each for every bone the stored pose is the same for every
\* order of the calls; a call with bone_index >= num_bones fails and
\* changes nothing.
C17_WriterCallbacksIndependent ==
    [](PoseDelivered => HoldsPose) /\ [][CallbackFrame]_vars
\* A pose of MaxBones bones, of different rotations and translations, has
\* been delivered whole to a writer of as many bones, the rotation of the
\* first bone last; nothing failed and the writer holds the pose.
C17_Witness ==
    /\ Len(output_writer.pose) = MaxBones
    /\ output_writer.writer.m_num_bones = MaxBones
    /\ PoseDelivered
    /\ output_writer.last_call = <<0, "rotation">>
    /\ output_writer.pose[1].rotation # output_writer.pose[1].translation
    /\ output_writer.pose[1] # output_writer.pose[MaxBones]
    /\ ~output_writer.writer.failed
    /\ HoldsPose

\* The offsets built: of bytes or of 32 bit words, 16 or 32 bits wide, by
\* each constructor, from sizes up to MaxOffset and around the largest 16
\* bit value.
OffsetValues == (0..MaxOffset) \cup {Max16 - 1, Max16, Max16 + 1}
PtrOffsets ==
    UNION {{PtrOffset(d, o, "default", 0), PtrOffset(d, o, "InvalidPtrOffset", 0)}
           \cup {PtrOffset(d, o, "size_t", v) : v \in OffsetValues} :
             d \in {"uint8_t", "uint32_t"}, o \in {"uint16_t", "uint32_t"}}
\* The base pointers offsets are added to: one aligned for every type, one
\* aligned for bytes only.
BasePointers == {16, 18}

PtrInit ==
    /\ ptr_offset \in PtrOffsets
    /\ ptr_result = <<>>
    /\ NoTool
    /\ NoThreads
    /\ NoTrack
    /\ NoWriter
    /\ NoLife
    /\ NoPure

\* offset.add_to(base)
AddTo ==
    /\ ~ptr_offset.failed
    /\ \E base \in BasePointers :
          ptr_result' = [op |-> "add_to", base |-> base,
                         result |-> add_to(ptr_offset, base)]
    /\ UNCHANGED ptr_offset
    /\ UNCHANGED <<toolVars, stageVars, trackVars, writerVars, lifeVars, pureVars>>
\* offset.safe_add_to(base)
SafeAddTo ==
    /\ ~ptr_offset.failed
    /\ \E base \in BasePointers :
          ptr_result' = [op |-> "safe_add_to", base |-> base,
                         result |-> safe_add_to(ptr_offset, base)]
    /\ UNCHANGED ptr_offset
    /\ UNCHANGED <<toolVars, stageVars, trackVars, writerVars, lifeVars, pureVars>>

PtrNext == AddTo \/ SafeAddTo
PtrSpec == PtrInit /\ [][PtrNext]_vars

\* An offset built from InvalidPtrOffset holds the all-ones pattern of its
\* width and is not valid; a default-constructed one holds 0 and is valid.
SentinelAndDefault ==
    /\ ptr_offset.built_from = "InvalidPtrOffset" =>
          /\ ~is_valid(ptr_offset)
          /\ Lo16(ptr_offset.m_value) = Max16
          /\ ptr_offset.offset_type = "uint32_t" =>
                Hi16(ptr_offset.m_value) = Max16
    /\ ptr_offset.built_from = "default" =>
          ptr_offset.m_value = 0 /\ is_valid(ptr_offset)
\* On an offset that is not valid add_to fails and gives no pointer and
\* safe_add_to gives null.
InvalidOffsetRefused ==
    ptr_result # <<>> /\ ~is_valid(ptr_offset) =>
        /\ ptr_result.op = "add_to" =>
              ptr_result.result.failed /\ ptr_result.result.pointer = nullptr
        /\ ptr_result.op = "safe_add_to" =>
              ~ptr_result.result.failed /\ ptr_result.result.pointer = nullptr
\* The claim as stated: on every valid offset both give base + offset.
ValidOffsetAdded ==
    ptr_result # <<>> /\ is_valid(ptr_offset) =>
        /\ ~ptr_result.result.failed
        /\ ptr_result.result.pointer = ptr_result.base + ptr_offset.m_value
C18_PtrOffsetAsStated ==
    SentinelAndDefault /\ InvalidOffsetRefused /\ ValidOffsetAdded
\* On a valid offset both give base + offset when that address is aligned
\* for the data type, and both fail in safe_ptr_cast when it is not.
ValidOffsetAddedWhenAligned ==
    ptr_result # <<>> /\ is_valid(ptr_offset) =>
        IF (ptr_result.base + ptr_offset.m_value)
              % Alignof(ptr_offset.data_type) = 0
        THEN /\ ~ptr_result.result.failed
             /\ ptr_result.result.pointer = ptr_result.base + ptr_offset.m_value
        ELSE /\ ptr_result.result.failed
             /\ ptr_result.result.pointer = nullptr
\* C18: a PtrOffset32 built from InvalidPtrOffset holds 0xFFFFFFFF and is
\* not valid, a default-constructed PtrOffset holds 0 and is valid; add_to
\* on an invalid offset fails without producing a pointer and safe_add_to
\* on it returns null; on a valid offset both return base + offset when
\* base + offset is aligned to alignof(DataType), and both fail their
\* alignment check when it is not.
C18_PtrOffset ==
    SentinelAndDefault /\ InvalidOffsetRefused /\ ValidOffsetAddedWhenAligned
\* safe_add_to on a 32 bit offset of bytes built from a size has returned
\* base + offset, a non-null pointer past the base.
C18_Witness ==
    /\ ptr_result # <<>>
    /\ ptr_offset.offset_type = "uint32_t"
    /\ ptr_offset.built_from = "size_t"
    /\ ptr_offset.m_value = MaxOffset
    /\ is_valid(ptr_offset)
    /\ ptr_result.op = "safe_add_to"
    /\ ~ptr_result.result.failed
    /\ ptr_result.result.pointer = ptr_result.base + MaxOffset

\* ------------------------------------------------- the artifact's bytes
\* The bits of an unsigned value of the given width, least significant
\* first, as the little-endian bytes of the blob hold them.
WordBits == 16
Bits(value, width) == [i \in 1..width |-> (value \div (2 ^ (i - 1))) % 2 = 1]
Zeros(width) == [i \in 1..width |-> FALSE]
U8(value) == Bits(value, 8)
U16(value) == Bits(value % (2 ^ WordBits), WordBits)
\* A u32 as its low and its high half; the sentinel is all ones.
U32(value) ==
    IF value = InvalidPtrOffset
    THEN [i \in 1..(2 * WordBits) |-> TRUE]
    ELSE U16(value) \o U16(value \div (2 ^ WordBits))
\* The value of the width bits at a bit offset.
RECURSIVE FromBits(_, _, _)
FromBits(bits, at, width) ==
    IF width = 0 THEN 0
    ELSE (IF bits[at + 1] THEN 1 ELSE 0) + 2 * FromBits(bits, at + 1, width - 1)
\* A u32 read back as its two halves.
ReadU32(bits, at) ==
    [lo |-> FromBits(bits, at, WordBits),
     hi |-> FromBits(bits, at + WordBits, WordBits)]
IsSentinel(word) ==
    word.lo = (2 ^ WordBits) - 1 /\ word.hi = (2 ^ WordBits) - 1

\* Bytes the encoder never writes hold what the allocator's memory held
\* before, any value at all.  The bits below give each of them as it is
\* over memory of zeros, and the unwritten sets give their positions: bit p
\* of the blob is bits[p] xor what the memory held at p.

\* The enumerators as the u8 the header stores.
RotationFormatCode(format) ==
    CASE format = "Quat_128" -> 0
      [] format = "Quat_96" -> 1
      [] format = "Quat_48" -> 2
      [] format = "Quat_32" -> 3
VectorFormatCode(format) ==
    CASE format = "Vector3_96" -> 0
      [] format = "Vector3_48" -> 1
      [] format = "Vector3_32" -> 2
RangeReductionCode(flags) ==
    (IF "PerClip" \in flags THEN 1 ELSE 0)
    + (IF "Rotations" \in flags THEN 2 ELSE 0)
    + (IF "Translations" \in flags THEN 4 ELSE 0)

\* The header's bytes: num_bones (u16), the two formats and the range
\* reduction flags (u8 each), three bytes of padding no store reaches, the
\* four u32 counts and the five u32 offsets.
header_unwritten == 41..64
header_bits(header) ==
    U16(header.num_bones)
    \o U8(RotationFormatCode(header.rotation_format))
    \o U8(VectorFormatCode(header.translation_format))
    \o U8(RangeReductionCode(header.range_reduction))
    \o Zeros(24)
    \o U32(header.num_samples)
    \o U32(header.sample_rate)
    \o U32(header.num_animated_rotation_tracks)
    \o U32(header.num_animated_translation_tracks)
    \o U32(header.default_tracks_bitset_offset)
    \o U32(header.constant_tracks_bitset_offset)
    \o U32(header.constant_track_data_offset)
    \o U32(header.clip_range_data_offset)
    \o U32(header.track_data_offset)
\* Where the five offsets start in the header, in bits.
HeaderOffsetsAt == {8 * (24 + 4 * k) : k \in 0..4}

\* The words of a bitset, bit i of a word at position i.
RECURSIVE bitset_bits(_)
bitset_bits(bitset) ==
    IF bitset = <<>> THEN <<>>
    ELSE [i \in 1..32 |-> (i - 1) \in bitset[1]] \o bitset_bits(Tail(bitset))
\* The scalars that stand for a stored value: the numerator and the
\* denominator of each component of a sample, the minima and the extents
\* of a range.
RECURSIVE component_scalars(_)
component_scalars(components) ==
    IF components = <<>> THEN <<>>
    ELSE <<components[1].num, components[1].den>>
         \o component_scalars(Tail(components))
entry_scalars(value) ==
    IF "c" \in DOMAIN value THEN component_scalars(value.c)
    ELSE value.min \o value.extent
RECURSIVE words_bits(_)
words_bits(scalars) ==
    IF scalars = <<>> THEN <<>>
    ELSE U16(scalars[1]) \o words_bits(Tail(scalars))
\* The bytes of a region entry: its scalars, a 16 bit word each, in as many
\* bytes as the entry takes; the last bit is the remembered flip of a
\* sample.
entry_bits(entry) ==
    LET scalars == entry_scalars(entry.value)
        bits == words_bits(scalars)
                \o Zeros(8 * entry.size - Len(scalars) * WordBits)
    IN [i \in DOMAIN bits |->
           IF i = Len(bits) /\ "c" \in DOMAIN entry.value
           THEN bits[i] \/ entry.value.flipped
           ELSE bits[i]]
RECURSIVE region_bits(_)
region_bits(entries) ==
    IF entries = <<>> THEN <<>>
    ELSE entry_bits(entries[1]) \o region_bits(Tail(entries))
\* The padding that brings a region's end to a multiple of 4 bytes: the
\* next region starts there and the bytes between are never written.
pad_unwritten(bits) == (Len(bits) + 1)..align_to(Len(bits), 32)
pad_bits(bits) == bits \o Zeros(align_to(Len(bits), 32) - Len(bits))

\* Everything after the preamble: the header, the two bitsets, the constant
\* region, the range region and the animated region.
payload_to_constant(blob) ==
    header_bits(blob.header)
    \o bitset_bits(blob.default_tracks_bitset)
    \o bitset_bits(blob.constant_tracks_bitset)
    \o region_bits(blob.constant_track_data)
payload_to_range(blob) ==
    pad_bits(payload_to_constant(blob)) \o region_bits(blob.clip_range_data)
payload_bits(blob) ==
    pad_bits(payload_to_range(blob)) \o region_bits(blob.track_data)
\* The bits of the payload no statement of compress_clip writes.
payload_unwritten(blob) ==
    header_unwritten
    \cup pad_unwritten(payload_to_constant(blob))
    \cup pad_unwritten(payload_to_range(blob))

\* CRC-32, polynomial 0x04C11DB7: the register after one more message bit.
\* reg[i] is the coefficient of x^(i-1).
crc_step(reg, bit) ==
    LET feedback == reg[32] # bit
    IN << feedback, reg[1] # feedback, reg[2] # feedback, reg[3],
         reg[4] # feedback, reg[5] # feedback, reg[6],
         reg[7] # feedback, reg[8] # feedback, reg[9],
         reg[10] # feedback, reg[11] # feedback, reg[12] # feedback,
         reg[13], reg[14], reg[15], reg[16] # feedback, reg[17],
         reg[18], reg[19], reg[20], reg[21], reg[22] # feedback,
         reg[23] # feedback, reg[24], reg[25], reg[26] # feedback,
         reg[27], reg[28], reg[29], reg[30], reg[31] >>
\* The register after the eight bits of one byte, from a register of
\* zeros: the table of the byte-wise CRC.
Bit(b) == IF b THEN 1 ELSE 0
crc_of_byte(byte) ==
    LET bits == Bits(byte, 8)
        zero == [i \in 1..32 |-> FALSE]
    IN crc_step(crc_step(crc_step(crc_step(crc_step(crc_step(crc_step(
       crc_step(zero, bits[1]), bits[2]), bits[3]), bits[4]), bits[5]),
       bits[6]), bits[7]), bits[8])
crc_table == [byte \in 0..255 |-> crc_of_byte(byte)]
\* The table index for the byte of the message that starts after bit at:
\* the top byte of the register xor the byte.
crc_index(reg, bits, at) ==
    1 * Bit(reg[32] # bits[at + 1]) + 2 * Bit(reg[31] # bits[at + 2]) + 4 * Bit(reg[30] # bits[at + 3]) + 8 * Bit(reg[29] # bits[at + 4]) +
    16 * Bit(reg[28] # bits[at + 5]) + 32 * Bit(reg[27] # bits[at + 6]) + 64 * Bit(reg[26] # bits[at + 7]) + 128 * Bit(reg[25] # bits[at + 8])
\* The register after one more byte: shifted by eight bits, xor the table
\* entry.
crc_byte(reg, bits, at) ==
    LET t == crc_table[crc_index(reg, bits, at)]
    IN << t[1], t[2], t[3], t[4], t[5], t[6], t[7], t[8], t[9] # reg[1],
         t[10] # reg[2], t[11] # reg[3], t[12] # reg[4], t[13] # reg[5],
         t[14] # reg[6], t[15] # reg[7], t[16] # reg[8], t[17] # reg[9],
         t[18] # reg[10], t[19] # reg[11], t[20] # reg[12],
         t[21] # reg[13], t[22] # reg[14], t[23] # reg[15],
         t[24] # reg[16], t[25] # reg[17], t[26] # reg[18],
         t[27] # reg[19], t[28] # reg[20], t[29] # reg[21],
         t[30] # reg[22], t[31] # reg[23], t[32] # reg[24] >>
\* The register after the bytes lo..hi of the message, the first half then
\* the second; the register stays 32 bits wide.
RECURSIVE crc_bytes(_, _, _, _)
crc_bytes(bits, lo, hi, reg) ==
    IF lo > hi THEN reg
    ELSE IF lo = hi THEN crc_byte(reg, bits, 8 * (lo - 1))
    ELSE LET mid == (lo + hi) \div 2
             first_half == crc_bytes(bits, lo, mid, reg)
         IN CASE Len(first_half) = 32 ->
                   crc_bytes(bits, mid + 1, hi, first_half)
\* The register starts all ones and the result is its complement.
crc32(bits) ==
    LET reg == crc_bytes(bits, 1, Len(bits) \div 8, [i \in 1..32 |-> TRUE])
    IN [i \in 1..32 |-> ~reg[i]]

\* What the memory held in a bit reaches the CRC of the bytes around it:
\* the register that the byte with that one bit set leaves, from a register
\* of zeros, after the bytes that follow it, taken as zeros, is xored into
\* the CRC when the memory held a 1 there.
RECURSIVE crc_zero_bytes(_, _)
crc_zero_bytes(reg, num_bytes) ==
    IF num_bytes = 0 THEN reg
    ELSE LET next == crc_byte(reg, Zeros(8), 0)
         IN CASE Len(next) = 32 -> crc_zero_bytes(next, num_bytes - 1)
MaxPayloadBytes == 128
crc_of_bit ==
    [bit \in 0..7, bytes_after \in 0..(MaxPayloadBytes - 1) |->
        crc_zero_bytes(crc_table[2 ^ bit], bytes_after)]
\* For each unwritten bit of a message, the bits of the CRC it reaches.
crc32_held(bits, unwritten) ==
    [p \in unwritten |->
        crc_of_bit[(p - 1) % 8, (Len(bits) \div 8) - 1 - ((p - 1) \div 8)]]

\* The blob as loaded: the preamble's fields and the bytes after it.
\* finalize_compressed_clip stamps the size and the CRC of the payload, the
\* bytes nothing wrote included: crc32 is the CRC over memory of zeros, and
\* crc32_held what each bit the memory held adds to it.
COMPRESSED_CLIP_TAG == "ACL clip"
COMPRESSED_CLIP_VERSION == 1
finalize_compressed_clip(blob) ==
    LET payload == payload_bits(blob)
        unwritten == payload_unwritten(blob)
    IN [magic |-> COMPRESSED_CLIP_TAG,
        version |-> COMPRESSED_CLIP_VERSION,
        algorithm_type |-> blob.algorithm_type,
        size |-> blob.size,
        crc32 |-> IF blob.is_finalized THEN crc32(payload) ELSE Zeros(32),
        crc32_held |-> IF blob.is_finalized
                       THEN crc32_held(payload, unwritten)
                       ELSE [p \in unwritten |-> Zeros(32)],
        payload |-> payload,
        unwritten |-> unwritten]

\* An offset of the header is the sentinel, or the offset of a byte of the
\* blob, counted from the end of the preamble, and a multiple of 4.
offset_ok(word, size) ==
    \/ IsSentinel(word)
    \/ /\ word.hi = 0
       /\ word.lo < size - SizeofCompressedClip
       /\ word.lo % 4 = 0
\* is_valid(check_hash): magic, version, the size against the preamble and
\* the bytes held, the CRC, and every offset that is not the sentinel.  The
\* CRC of the bytes equals the stored one for every content of the unwritten
\* bytes when both parts are equal, and for none when only the first
\* differs.
CompressedClip_is_valid(blob_image, check_hash) ==
    /\ blob_image.magic = COMPRESSED_CLIP_TAG
    /\ blob_image.version = COMPRESSED_CLIP_VERSION
    /\ blob_image.algorithm_type = "UniformlySampled"
    /\ blob_image.size >= SizeofCompressedClip
    /\ 8 * (blob_image.size - SizeofCompressedClip) = Len(blob_image.payload)
    /\ check_hash =>
          /\ crc32(blob_image.payload) = blob_image.crc32
          /\ crc32_held(blob_image.payload, blob_image.unwritten)
               = blob_image.crc32_held
    /\ \A at \in HeaderOffsetsAt :
          /\ at + 32 <= Len(blob_image.payload)
          /\ offset_ok(ReadU32(blob_image.payload, at), blob_image.size)

\* One clip of each layout: a default rotation with a constant translation,
\* an animated rotation with a default translation, and a constant rotation
\* with an animated translation; an empty clip too.
LoadClips ==
    {c \in ShapeClips(1, 1) :
        c.bones[1].rotation_track = <<quat_identity>>
        /\ c.bones[1].translation_track = <<MaxVal>>}
    \cup {c \in ShapeClips(1, 2) :
            \/ /\ c.bones[1].rotation_track = <<HalfTurn, quat_identity>>
               /\ c.bones[1].translation_track = <<0, 0>>
            \/ /\ c.bones[1].rotation_track
                     = <<NegatedIdentity, NegatedIdentity>>
               /\ c.bones[1].translation_track = <<MaxVal, 0>>}
    \cup Clips(0, 1, {<<quat_identity>>}, {<<0>>})
LoadInit == InitWith(LoadClips, CompressionSettings)

\* try_algorithm: ACL_ENSURE(compressed_clip->is_valid(true), ...)
IsValid ==
    /\ pc = "compressed"
    /\ ~compressed_clip.is_null
    /\ LET loaded == finalize_compressed_clip(compressed_clip)
       IN image' = [blob |-> loaded, flipped |-> 0,
                    is_valid |-> CompressedClip_is_valid(loaded, TRUE)]
    /\ pc' = "validated"
    /\ UNCHANGED <<clip, settings, allocator, compressed_clip, locals>>
    /\ UNCHANGED <<sample_tick, lossy_pose, sample_bone_index, test_transform>>
    /\ UNCHANGED <<stageVars, trackVars, writerVars, ptrVars, lifeVars, pureVars>>
\* One bit of the payload flips and the blob is validated again.
FlipBit ==
    /\ pc = "validated"
    /\ \E b \in 1..Len(image.blob.payload) :
          LET flipped == [image.blob EXCEPT !.payload[b] = ~@]
          IN image' = [blob |-> flipped, flipped |-> b,
                       is_valid |-> CompressedClip_is_valid(flipped, TRUE)]
    /\ pc' = "flipped"
    /\ UNCHANGED <<clip, settings, allocator, compressed_clip, locals>>
    /\ UNCHANGED <<sample_tick, lossy_pose, sample_bone_index, test_transform>>
    /\ UNCHANGED <<stageVars, trackVars, writerVars, ptrVars, lifeVars, pureVars>>

LoadNext == CompressClip \/ IsValid \/ FlipBit
LoadSpec == LoadInit /\ [][LoadNext]_vars

\* The blob over memory that held the bytes of fill, repeated from the start
\* of the payload: every bit with its value.
held_bit(fill, p) ==
    (fill[(((p - 1) \div 8) % Len(fill)) + 1] \div (2 ^ ((p - 1) % 8))) % 2 = 1
RECURSIVE FlipBits(_, _)
FlipBits(bits, positions) ==
    IF positions = {} THEN bits
    ELSE LET p == CHOOSE q \in positions : TRUE
         IN FlipBits([bits EXCEPT ![p] = ~@], positions \ {p})
OverMemory(blob_image, fill) ==
    LET set == {p \in blob_image.unwritten : held_bit(fill, p)}
        held == blob_image.crc32_held
    IN [blob_image EXCEPT
          !.payload = FlipBits(@, set),
          !.crc32 = [i \in 1..32 |->
                        @[i] # (Cardinality({p \in set : held[p][i]}) % 2 = 1)],
          !.crc32_held = <<>>,
          !.unwritten = {}]
\* Bytes the memory held in runs of the tool, and the fill of a debug heap.
HeldSample == <<40, 98, 117, 85, 0, 205>>
\* C14: every artifact compress_clip returns passes the validation on load,
\* hash check included, and with any one bit of its payload flipped it
\* fails it, whatever the bytes it never wrote hold: as the image stands
\* for every content of them, and over a sample of it, bit by bit.
C14_ValidUnlessBitFlipped ==
    /\ pc = "validated" =>
          /\ image.is_valid
          /\ CompressedClip_is_valid(OverMemory(image.blob, HeldSample), TRUE)
    /\ pc = "flipped" =>
          /\ ~image.is_valid
          /\ ~CompressedClip_is_valid(OverMemory(image.blob, HeldSample), TRUE)

\* ------------------------------------------------ set_sample, get_sample
\* The step is a set_sample or get_sample call.
TrackCalled(op) == track_call' # <<>> /\ track_call'.op = op
\* get_sample gives the same at every index other than the one written.
OtherSamplesKept ==
    \A j \in (0..MaxSamples) \ {track_call'.sample_index} :
        get_sample(animation_track', j) = get_sample(animation_track, j)
\* A call with an index past the end, or on a track that is not
\* initialized, fails and leaves the samples as they were.
BadCallRefused ==
    /\ track_call' # <<>>
    /\ \/ ~animation_track.is_initialized
       \/ track_call'.sample_index >= animation_track.num_samples
    => track_call'.failed /\ animation_track' = animation_track
\* The claim as stated: every set_sample within the samples of an
\* initialized track stores its value.
SetSampleStores ==
    /\ TrackCalled("set_sample")
    /\ animation_track.is_initialized
    /\ track_call'.sample_index < animation_track.num_samples
    => /\ get_sample(animation_track', track_call'.sample_index)
            = Value(Whole(track_call'.sample.value))
       /\ OtherSamplesKept
C21_SetThenGetAsStated == [][SetSampleStores /\ BadCallRefused]_vars
\* The value is one set_sample accepts: finite, and of unit length when it
\* is a rotation.
AcceptedSample(type, sample) ==
    sample.is_finite /\ (type = "Rotation" => sample.is_normalized)
SetSampleStoresAccepted ==
    /\ TrackCalled("set_sample")
    /\ animation_track.is_initialized
    /\ track_call'.sample_index < animation_track.num_samples
    => IF AcceptedSample(animation_track.type, track_call'.sample)
       THEN /\ ~track_call'.failed
            /\ get_sample(animation_track', track_call'.sample_index)
                 = Value(Whole(track_call'.sample.value))
            /\ OtherSamplesKept
       ELSE track_call'.failed /\ animation_track' = animation_track
\* C21: on an initialized track, after set_sample(i, v) with
\* i < num_samples and v finite (and normalized, for a rotation),
\* get_sample(i) returns v and get_sample(j) for every j # i returns what
\* it returned before; set_sample with a value that is not finite or a
\* rotation that is not normalized, set_sample or get_sample with
\* i >= num_samples, or on a default-constructed track, fails and leaves
\* every stored sample unchanged.
C21_SetThenGet == [][SetSampleStoresAccepted /\ BadCallRefused]_vars
\* The last sample of a track of MaxSamples samples has been set to a value
\* the first sample does not have, and the track holds it.
C21_Witness ==
    /\ track_call # <<>>
    /\ track_call.op = "set_sample"
    /\ ~track_call.failed
    /\ animation_track.num_samples = MaxSamples
    /\ track_call.sample_index = MaxSamples - 1
    /\ animation_track.samples[MaxSamples] = track_call.sample.value
    /\ animation_track.samples[1] # track_call.sample.value
    /\ get_sample(animation_track, MaxSamples - 1)
         = Value(Whole(track_call.sample.value))

\* --------------------------------------------- the lifetime of the tracks
\* get_animation_track_sample_size(type): the doubles of one sample.
get_animation_track_sample_size(type) == IF type = "Translation" THEN 3 ELSE 4
\* A track that has not been constructed yet.
Unborn ==
    [state |-> "unborn", m_allocator |-> nullptr, m_sample_data |-> nullptr,
     m_num_samples |-> 0, m_sample_rate |-> 0, m_type |-> "Rotation"]
\* AnimationTrack()
track_default_construct ==
    [Unborn EXCEPT !.state = "alive"]
\* AnimationTrack(allocator, num_samples, sample_rate, type): sample_data is
\* the block allocate_type_array<double> returned.
track_construct(sample_data, num_samples, sample_rate, type) ==
    [state |-> "alive", m_allocator |-> 1, m_sample_data |-> sample_data,
     m_num_samples |-> num_samples, m_sample_rate |-> sample_rate,
     m_type |-> type]
\* AnimationTrack(AnimationTrack&& track): every member copied from track,
\* which is left as it was.
track_move_construct(track_) == [track_ EXCEPT !.state = "alive"]
\* ~AnimationTrack(): the deallocate_type_array call it makes, if any, as
\* <<elements, num_elements>>.
track_destroy_call(track_) ==
    IF track_.m_allocator # nullptr /\ track_.m_sample_data # nullptr
    THEN << <<track_.m_sample_data,
              track_.m_num_samples
                * get_animation_track_sample_size(track_.m_type)>> >>
    ELSE <<>>

\* A block as the Allocator handed it out, and the deallocate calls it got.
Block(num_elements) == [num_elements |-> num_elements, deallocated |-> <<>>]
TrackNames == {"a", "b", "c"}

LifeInit ==
    /\ objects = [n \in TrackNames |-> Unborn]
    /\ blocks = <<>>
    /\ NoTool
    /\ NoThreads
    /\ NoTrack
    /\ NoWriter
    /\ NoPtrOffset
    /\ NoPure

\* AnimationRotationTrack track; or AnimationTranslationTrack track;
TrackDefaultConstruct ==
    /\ \E n \in TrackNames :
          /\ objects[n].state = "unborn"
          /\ objects' = [objects EXCEPT ![n] = track_default_construct]
    /\ UNCHANGED blocks
    /\ UNCHANGED <<toolVars, stageVars, trackVars, writerVars, ptrVars, pureVars>>
\* AnimationRotationTrack track(allocator, num_samples, sample_rate); the
\* block it allocates gets the next address.
TrackConstruct ==
    /\ \E n \in TrackNames, num_samples \in 1..MaxSamples, type \in TrackTypes :
          /\ objects[n].state = "unborn"
          /\ blocks' = Append(blocks,
                 Block(num_samples * get_animation_track_sample_size(type)))
          /\ objects' = [objects EXCEPT ![n] =
                 track_construct(Len(blocks) + 1, num_samples, 30, type)]
    /\ UNCHANGED <<toolVars, stageVars, trackVars, writerVars, ptrVars, pureVars>>
\* AnimationRotationTrack track(std::move(other));
TrackMoveConstruct ==
    /\ \E n \in TrackNames, other \in TrackNames :
          /\ objects[n].state = "unborn"
          /\ objects[other].state = "alive"
          /\ objects' = [objects EXCEPT ![n] =
                 track_move_construct(objects[other])]
    /\ UNCHANGED blocks
    /\ UNCHANGED <<toolVars, stageVars, trackVars, writerVars, ptrVars, pureVars>>
\* track = std::move(other); every member swapped.
TrackMoveAssign ==
    /\ \E n \in TrackNames, other \in TrackNames :
          /\ objects[n].state = "alive"
          /\ objects[other].state = "alive"
          /\ objects' = [objects EXCEPT ![n] = objects[other],
                                        ![other] = objects[n]]
    /\ UNCHANGED blocks
    /\ UNCHANGED <<toolVars, stageVars, trackVars, writerVars, ptrVars, pureVars>>
\* ~AnimationTrack()
TrackDestroy ==
    /\ \E n \in TrackNames :
          /\ objects[n].state = "alive"
          /\ objects' = [objects EXCEPT ![n].state = "dead"]
          /\ LET call == track_destroy_call(objects[n])
             IN blocks' =
                  IF call = <<>> THEN blocks
                  ELSE [blocks EXCEPT ![call[1][1]].deallocated =
                           Append(@, call[1][2])]
    /\ UNCHANGED <<toolVars, stageVars, trackVars, writerVars, ptrVars, pureVars>>

LifeNext ==
    \/ TrackDefaultConstruct
    \/ TrackConstruct
    \/ TrackMoveConstruct
    \/ TrackMoveAssign
    \/ TrackDestroy
LifeSpec == LifeInit /\ [][LifeNext]_vars

\* The live tracks whose sample data is the block at an address.
TracksOf(address) ==
    {n \in TrackNames : objects[n].state = "alive"
                        /\ objects[n].m_sample_data = address}
\* C22: across any sequence of construct, move-construct, move-assign and
\* destroy operations every sample buffer a track constructor allocated is
\* deallocated at most once, with the element count it was allocated with,
\* at most one live track refers to it, and once every track is destroyed
\* it has been deallocated.
C22_BuffersFreedOnce ==
    \A address \in DOMAIN blocks :
        /\ Len(blocks[address].deallocated) <= 1
        /\ \A k \in DOMAIN blocks[address].deallocated :
              blocks[address].deallocated[k] = blocks[address].num_elements
        /\ Cardinality(TracksOf(address)) <= 1
        /\ (\A n \in TrackNames : objects[n].state = "dead")
              => Len(blocks[address].deallocated) = 1

\* ------------------------------------------- the buffer and its last region
\* The regions of the artifact by the header as first filled in: the
\* header-relative offset and the byte size of each.
FilledRegions ==
    LET filled == locals.header_as_filled
    IN { [offset |-> filled.default_tracks_bitset_offset,
          size |-> 4 * locals.bitset_size],
         [offset |-> filled.constant_tracks_bitset_offset,
          size |-> 4 * locals.bitset_size],
         [offset |-> filled.constant_track_data_offset,
          size |-> locals.constant_data_size],
         [offset |-> filled.clip_range_data_offset,
          size |-> locals.clip_range_data_size],
         [offset |-> filled.track_data_offset,
          size |-> locals.animated_data_size] }
\* C23: the buffer size compress_clip computes and allocates, counted from
\* the start of the blob, is the preamble size plus the header-relative end
\* of the animated region (offset + size by the header as first filled in):
\* no region has a byte beyond the buffer and the last one ends where the
\* buffer ends.
C23_BufferEndsWithLastRegion ==
    ReturnedArtifact =>
        LET filled == locals.header_as_filled
            last_end == SizeofCompressedClip + filled.track_data_offset
                        + locals.animated_data_size
        IN /\ locals.buffer_size = last_end
           /\ \A i \in BufferAllocations : allocator[i].num_elements = last_end
           /\ compressed_clip.size = last_end
           /\ \A r \in FilledRegions :
                  SizeofCompressedClip + r.offset + r.size <= locals.buffer_size
\* A buffer with padding after the constant data, whose animated offset is
\* then replaced by the sentinel because no track is animated: the buffer
\* ends at the animated offset as first filled in.
C23_Witness ==
    /\ ReturnedArtifact
    /\ locals.constant_data_size % 4 = 2
    /\ locals.animated_data_size = 0
    /\ compressed_clip.header.track_data_offset = InvalidPtrOffset
    /\ locals.buffer_size
           = SizeofCompressedClip + locals.header_as_filled.track_data_offset

\* ------------------------------------------- the pointers compress_clip takes
\* The condition under which compress_clip writes a region, by its locals
\* and settings.
RegionPresent(frame, region) ==
    CASE region = "constant_track_data" -> frame.locals.constant_data_size > 0
      [] region = "track_data" -> frame.locals.animated_data_size > 0
      [] region = "clip_range_data" -> "PerClip" \in frame.settings.range_reduction
\* The offset of a region as compress_clip computed it.
ComputedOffset(frame, region) ==
    CASE region = "constant_track_data" ->
            frame.locals.header_as_filled.constant_track_data_offset
      [] region = "track_data" ->
            frame.locals.header_as_filled.track_data_offset
      [] region = "clip_range_data" ->
            frame.locals.header_as_filled.clip_range_data_offset
\* C24: compress_clip never resolves a sentinel PtrOffset into a pointer:
\* no call is stopped by the ACL_ENSURE of add_to, and every pointer to the
\* constant data, the animated data or the range data is taken only when
\* constant_data_size > 0, animated_data_size > 0 or PerClip is set, from an
\* offset that is not the sentinel and still holds the value computed for
\* the header.
C24_NoSentinelResolved ==
    \A i \in DOMAIN threads :
        /\ threads[i].stage # "stopped"
        /\ \A k \in DOMAIN threads[i].pointers :
              LET taken == threads[i].pointers[k] IN
              /\ RegionPresent(threads[i], taken.region)
              /\ taken.offset # InvalidPtrOffset
              /\ taken.offset = ComputedOffset(threads[i], taken.region)
              /\ ~taken.pointer.failed
              /\ taken.pointer.pointer
                     = HeaderAddress(threads[i]) + taken.offset
\* One call has returned having taken all three pointers, and another
\* having replaced its animated offset by the sentinel without taking it.
C24_Witness ==
    \E i \in DOMAIN threads :
        /\ threads[i].stage = "returned"
        /\ Len(threads[i].pointers) = 3
        /\ Load(memory, threads[i].result).header.clip_range_data_offset
               # InvalidPtrOffset
        /\ \E j \in DOMAIN threads :
              /\ threads[j].stage = "returned"
              /\ threads[j].result # nullptr
              /\ Len(threads[j].pointers) < 3
              /\ Load(memory, threads[j].result).header.track_data_offset
                     = InvalidPtrOffset

\* ------------------------------------------------ integers of a fixed width
\* An unsigned integer as its limbs of 16 bits, lowest first: a uint32_t has
\* two, a 64 bit size_t four.  Arithmetic wraps at the width of its first
\* operand, as unsigned arithmetic in C++ does.
LimbBase == Max16 + 1
RECURSIVE ToLimbs(_, _)
ToLimbs(value, n) ==
    IF n = 0 THEN <<>>
    ELSE <<value % LimbBase>> \o ToLimbs(value \div LimbBase, n - 1)
\* static_cast to a type of n limbs: truncation or zero extension.
Resize(x, n) == [i \in 1..n |-> IF i <= Len(x) THEN x[i] ELSE 0]
RECURSIVE AddCarry(_, _, _)
AddCarry(x, y, carry) ==
    IF x = <<>> THEN <<>>
    ELSE LET s == Head(x) + Head(y) + carry
         IN <<s % LimbBase>> \o AddCarry(Tail(x), Tail(y), s \div LimbBase)
\* x + y
Plus(x, y) == AddCarry(x, Resize(y, Len(x)), 0)
\* x * k + carry for a k of at most 8 bits
RECURSIVE TimesSmall(_, _, _)
TimesSmall(x, k, carry) ==
    IF x = <<>> THEN <<>>
    ELSE LET p == Head(x) * k + carry
         IN <<p % LimbBase>> \o TimesSmall(Tail(x), k, p \div LimbBase)
TimesLimb(x, limb) ==
    Plus(TimesSmall(TimesSmall(x, limb \div 256, 0), 256, 0),
         TimesSmall(x, limb % 256, 0))
\* x * y
RECURSIVE Times(_, _)
Times(x, y) ==
    IF y = <<>> THEN Resize(<<>>, Len(x))
    ELSE Plus(TimesLimb(x, Head(y)),
              Resize(<<0>> \o Times(x, Tail(y)), Len(x)))
\* x & ~m and x & m
AndNot(x, m) == [i \in 1..Len(x) |-> BitAndNot(x[i], Resize(m, Len(x))[i])]
\* x < y for two integers of the same width
RECURSIVE Less(_, _)
Less(x, y) ==
    IF x = <<>> THEN FALSE
    ELSE LET n == Len(x)
         IN \/ x[n] < y[n]
            \/ x[n] = y[n] /\ Less(SubSeq(x, 1, n - 1), SubSeq(y, 1, n - 1))
LessEq(x, y) == x = y \/ Less(x, y)

\* align_to(IntegralType value, size_t alignment) at the width of
\* IntegralType: the sum and the mask are computed in size_t, the result is
\* cast back.
align_to_limbs_down(value, alignment) ==
    Resize(AndNot(Resize(value, 4), ToLimbs(alignment - 1, 4)), Len(value))
align_to_limbs(value, alignment) ==
    Resize(AndNot(Plus(Resize(value, 4), ToLimbs(alignment - 1, 4)),
                  ToLimbs(alignment - 1, 4)),
           Len(value))
\* is_aligned_to(IntegralType value, size_t alignment)
is_aligned_to_limbs(value, alignment) ==
    \A i \in 1..4 :
        BitAnd(Resize(value, 4)[i], ToLimbs(alignment - 1, 4)[i]) = 0

\* ------------------------------------------------------- the pure functions
\* The values of a uint32_t the functions are applied to: the smallest ones
\* and the ones around 2^16, 2^31 and 2^32.
LowLimbs == (0..(MaxOffset + 1)) \cup ((Max16 - MaxOffset - 1)..Max16)
HighLimbs == {0, 1, (Max16 - 1) \div 2, (Max16 + 1) \div 2, Max16}
Uint32s == {<<lo, hi>> : lo \in LowLimbs, hi \in HighLimbs}
\* The alignments: powers of two.
Alignments == {1, 2, 4, 8, 16}

PureInit ==
    /\ pure_call = <<>>
    /\ NoTool
    /\ NoThreads
    /\ NoTrack
    /\ NoWriter
    /\ NoPtrOffset
    /\ NoLife

\* align_to<uint32_t>(value, alignment), then align_to and is_aligned_to on
\* the result.
AlignTo ==
    /\ pure_call = <<>>
    /\ \E value \in Uint32s, alignment \in Alignments :
          LET result == align_to_limbs(value, alignment)
          IN pure_call' = [op |-> "align_to", value |-> value,
                           alignment |-> alignment, result |-> result,
                           again |-> align_to_limbs(result, alignment),
                           is_aligned |-> is_aligned_to_limbs(result, alignment)]
    /\ UNCHANGED <<toolVars, stageVars, trackVars, writerVars, ptrVars, lifeVars>>

PureCalled(op) == pure_call # <<>> /\ pure_call.op = op
\* 2^32
TwoTo32 == <<0, 0, 1>>
\* value + alignment <= 2^32: the multiple the value rounds up to fits.
RoundsWithin32(value, alignment) ==
    LessEq(Plus(Resize(value, 3), ToLimbs(alignment, 3)), TwoTo32)
\* The result is the smallest multiple of the alignment at or above the
\* value: a multiple, value <= result < value + alignment.
SmallestMultipleAtOrAbove(result, value, alignment) ==
    /\ result[1] % alignment = 0
    /\ LessEq(value, result)
    /\ Less(Resize(result, 3), Plus(Resize(value, 3), ToLimbs(alignment, 3)))
\* The claim as stated: for every 32 bit value and every power of two
\* alignment the result is the smallest multiple at or above the value.
C26_AlignToAsStated ==
    PureCalled("align_to") =>
        /\ SmallestMultipleAtOrAbove(pure_call.result, pure_call.value,
                                     pure_call.alignment)
        /\ pure_call.again = pure_call.result
        /\ pure_call.is_aligned
\* C26: for every 32 bit unsigned value v and power of two alignment a with
\* v + a <= 2^32, align_to(v, a) is the smallest multiple of a that is >= v
\* (v <= result < v + a); for a larger v the multiple is 2^32 and the result
\* wraps to 0; in both cases align_to is idempotent on the result and
\* is_aligned_to(result, a) holds, and on values below 2^16 the result is
\* the one computed for the sizes of compress_clip.
C26_AlignTo ==
    PureCalled("align_to") =>
        /\ IF RoundsWithin32(pure_call.value, pure_call.alignment)
           THEN SmallestMultipleAtOrAbove(pure_call.result, pure_call.value,
                                          pure_call.alignment)
           ELSE pure_call.result = <<0, 0>>
        /\ pure_call.again = pure_call.result
        /\ pure_call.is_aligned
        /\ pure_call.value[2] = 0 /\ pure_call.value[1] < Max16 - 16 =>
              pure_call.result
                  = ToLimbs(align_to(pure_call.value[1], pure_call.alignment), 2)
\* A value that needs rounding up has been rounded to the next multiple of
\* 8, across a carry into the high limb.
C26_Witness ==
    /\ PureCalled("align_to")
    /\ pure_call.alignment = 8
    /\ pure_call.value = <<Max16 - 2, 1>>
    /\ pure_call.result = <<0, 2>>

\* --------------------------------------------- the sizes at their real width
\* The sizes compress_clip computes (constant_data_size, animated_data_size,
\* buffer_size), in unsigned integers of the given number of limbs: two for
\* the uint32_t of the source, four for integers wide enough to hold every
\* product and sum of the inputs.
compress_sizes_limbs(width, num_bones, num_samples, n, settings_, clip_range_data_size) ==
    LET rotation_size ==
            ToLimbs(get_packed_rotation_size(settings_.rotation_format), width)
        translation_size ==
            ToLimbs(get_packed_vector_size(settings_.translation_format), width)
        constant_data_size ==
            Plus(Times(rotation_size,
                       ToLimbs(n.num_constant_rotation_tracks, width)),
                 Times(ToLimbs(constant_translation_size(settings_), width),
                       ToLimbs(n.num_constant_translation_tracks, width)))
        animated_data_size ==
            Times(Plus(Times(rotation_size,
                             ToLimbs(n.num_animated_rotation_tracks, width)),
                       Times(translation_size,
                             ToLimbs(n.num_animated_translation_tracks, width))),
                  Resize(num_samples, width))
        bitset_size == get_bitset_size(num_bones * NUM_TRACKS_PER_BONE)
        preamble ==
            ToLimbs(SizeofCompressedClip + SizeofFullPrecisionHeader
                    + 4 * bitset_size + 4 * bitset_size, width)
        buffer_size ==
            Plus(align_to_limbs(
                     Plus(align_to_limbs(Plus(preamble, constant_data_size), 4),
                          ToLimbs(clip_range_data_size, width)), 4),
                 animated_data_size)
    IN [constant_data_size |-> constant_data_size,
        animated_data_size |-> animated_data_size,
        buffer_size |-> buffer_size]

\* The clips by what the sizes depend on: the number of bones, the class of
\* the rotation tracks and of the translation tracks (the same for every
\* bone) and the number of samples.
BoneCounts == {1, MaxBones, Max16}
SampleCounts ==
    {<<1, 0>>, <<MaxSamples, 0>>, <<2341, 0>>, <<0, 1>>, <<0, 4096>>,
     <<0, (Max16 + 1) \div 2>>, <<Max16, Max16>>}
TrackClasses == {"default", "constant", "animated"}
CountOf(class, of_class, num_bones) == IF class = of_class THEN num_bones ELSE 0
StreamCounts(num_bones, rotations, translations) ==
    [num_constant_rotation_tracks |-> CountOf(rotations, "constant", num_bones),
     num_constant_translation_tracks |->
         CountOf(translations, "constant", num_bones),
     num_animated_rotation_tracks |-> CountOf(rotations, "animated", num_bones),
     num_animated_translation_tracks |->
         CountOf(translations, "animated", num_bones)]
\* get_stream_range_data_size for these streams.
RangeDataSizeOf(n, settings_) ==
    IF ~is_enum_flag_set(settings_.range_reduction, "PerClip") THEN 0
    ELSE (IF is_enum_flag_set(settings_.range_reduction, "Rotations")
          THEN get_range_rotation_size(settings_.rotation_format)
               * n.num_animated_rotation_tracks ELSE 0)
       + (IF is_enum_flag_set(settings_.range_reduction, "Translations")
          THEN get_range_translation_size(settings_.translation_format)
               * n.num_animated_translation_tracks ELSE 0)

\* The size computations of compress_clip (encoder.h:122-143) for a clip it
\* accepts, in uint32_t as the source has them and in wide integers.
CompressSizes ==
    /\ pure_call = <<>>
    /\ \E num_bones \in BoneCounts, num_samples \in SampleCounts,
          rotations \in TrackClasses, translations \in TrackClasses,
          s \in CompressionSettings :
          /\ ~fails_translation_format(s)
          /\ LET n == StreamCounts(num_bones, rotations, translations)
                 range_size == RangeDataSizeOf(n, s)
             IN pure_call' =
                  [op |-> "compress_sizes",
                   num_bones |-> num_bones, num_samples |-> num_samples,
                   counts |-> n, settings |-> s,
                   sizes |-> compress_sizes_limbs(2, num_bones, num_samples,
                                                  n, s, range_size),
                   exact |-> compress_sizes_limbs(4, num_bones, num_samples,
                                                  n, s, range_size)]
    /\ UNCHANGED <<toolVars, stageVars, trackVars, writerVars, ptrVars, lifeVars>>

\* C25: for every clip accepted by compress_clip the 32 bit values
\* animated_data_size and buffer_size equal the exact products and sums:
\* they never wrap modulo 2^32.
C25_SizesNeverWrap ==
    PureCalled("compress_sizes") =>
        /\ Resize(pure_call.sizes.animated_data_size, 4)
               = pure_call.exact.animated_data_size
        /\ Resize(pure_call.sizes.buffer_size, 4) = pure_call.exact.buffer_size

\* ---------------------------------------------------------------- quat_32.h
\* A __m128 as its four lanes, lane 0 first.  _mm_set_ps(e3, e2, e1, e0)
\* puts its last argument in lane 0.
mm_set_ps(e3, e2, e1, e0) == <<e0, e1, e2, e3>>
\* _mm_cvtss_f32(a): lane 0
mm_cvtss_f32(a) == a[1]
\* _mm_shuffle_ps(a, b, _MM_SHUFFLE(z, y, x, w)): lanes a[w], a[x], b[y], b[z]
mm_shuffle_ps(a, b, z, y, x, w) == <<a[w + 1], a[x + 1], b[y + 1], b[z + 1]>>

\* quat_set(x, y, z, w)
quat_set(build, x, y, z, w) ==
    IF build = "ACL_SSE2_INTRINSICS" THEN mm_set_ps(x, y, z, w)
    ELSE [x |-> x, y |-> y, z |-> z, w |-> w]
quat_get_x(build, input) ==
    IF build = "ACL_SSE2_INTRINSICS" THEN mm_cvtss_f32(input) ELSE input.x
quat_get_y(build, input) ==
    IF build = "ACL_SSE2_INTRINSICS"
    THEN mm_cvtss_f32(mm_shuffle_ps(input, input, 1, 1, 1, 1)) ELSE input.y
quat_get_z(build, input) ==
    IF build = "ACL_SSE2_INTRINSICS"
    THEN mm_cvtss_f32(mm_shuffle_ps(input, input, 2, 2, 2, 2)) ELSE input.z
quat_get_w(build, input) ==
    IF build = "ACL_SSE2_INTRINSICS"
    THEN mm_cvtss_f32(mm_shuffle_ps(input, input, 3, 3, 3, 3)) ELSE input.w
\* quat_length_squared(input)
quat_length_squared(build, input) ==
    (quat_get_x(build, input) * quat_get_x(build, input))
    + (quat_get_y(build, input) + quat_get_y(build, input))
    + (quat_get_z(build, input) + quat_get_z(build, input))
    + (quat_get_w(build, input) + quat_get_w(build, input))

\* The components: whole numbers, which float arithmetic keeps exact.
MaxComponent == 2
Components == (0 - MaxComponent)..MaxComponent

\* quat_set(x, y, z, w), then the four getters on the result.
QuatSetGet ==
    /\ pure_call = <<>>
    /\ \E build \in Builds, x \in Components, y \in Components,
          z \in Components, w \in Components :
          LET q == quat_set(build, x, y, z, w)
          IN pure_call' = [op |-> "quat_set", build |-> build,
                           x |-> x, y |-> y, z |-> z, w |-> w,
                           got |-> [x |-> quat_get_x(build, q),
                                    y |-> quat_get_y(build, q),
                                    z |-> quat_get_z(build, q),
                                    w |-> quat_get_w(build, q)]]
    /\ UNCHANGED <<toolVars, stageVars, trackVars, writerVars, ptrVars, lifeVars>>

\* quat_length_squared of a quaternion, with the components its getters
\* give.
QuatLengthSquared ==
    /\ pure_call = <<>>
    /\ \E build \in Builds, x \in Components, y \in Components,
          z \in Components, w \in Components :
          LET q == quat_set(build, x, y, z, w)
          IN pure_call' = [op |-> "quat_length_squared", build |-> build,
                           x |-> quat_get_x(build, q),
                           y |-> quat_get_y(build, q),
                           z |-> quat_get_z(build, q),
                           w |-> quat_get_w(build, q),
                           result |-> quat_length_squared(build, q)]
    /\ UNCHANGED <<toolVars, stageVars, trackVars, writerVars, ptrVars, lifeVars>>

\* C27: quat_length_squared(q) equals x*x + y*y + z*z + w*w for every
\* quaternion q = (x, y, z, w), and so is 1 for every unit quaternion.
C27_LengthSquaredIsSumOfSquares ==
    PureCalled("quat_length_squared") =>
        pure_call.result
            = pure_call.x * pure_call.x + pure_call.y * pure_call.y
              + pure_call.z * pure_call.z + pure_call.w * pure_call.w

\* C28: in the SSE2 build and in the scalar build, each getter returns the
\* argument of quat_set of its name: quat_get_x(quat_set(x, y, z, w)) = x,
\* and the same for y, z and w.
C28_SetThenGet ==
    PureCalled("quat_set") =>
        /\ pure_call.got.x = pure_call.x
        /\ pure_call.got.y = pure_call.y
        /\ pure_call.got.z = pure_call.z
        /\ pure_call.got.w = pure_call.w

\* --------------------------------------------------------------- scalar_64.h
\* deg2rad(deg), as the fraction of ACL_PI_64 it returns.
deg2rad(deg) == Frac(deg, 360)
\* The angles of the unit tests, in degrees, a half turn and a full turn.
Degrees == {-120, -90, -45, 0, 30, 45, 57, 60, 90, 120, 180, 360}
Deg2Rad ==
    /\ pure_call = <<>>
    /\ \E deg \in Degrees :
          pure_call' = [op |-> "deg2rad", deg |-> deg, result |-> deg2rad(deg)]
    /\ UNCHANGED <<toolVars, stageVars, trackVars, writerVars, ptrVars, lifeVars>>
\* C29: deg2rad(d) = d * pi / 180 for every d: deg2rad(180) = pi and
\* deg2rad(360) = 2 * pi.
C29_Deg2Rad ==
    PureCalled("deg2rad") => FracEq(pure_call.result, Frac(pure_call.deg, 180))

\* ------------------------------------------------- make_unique and Deleter
\* std::is_trivially_default_constructible and is_trivially_destructible:
\* true of the integer types, false of BoneStreams.
is_trivial(type) == type # "BoneStreams"
ElementTypes == {"uint8_t", "uint32_t", "BoneStreams"}
\* A block of an Allocator: the type of its elements, the size passed to
\* allocate in units of sizeof(AllocatedType), the number of elements
\* constructed in it, the destructor calls each element got and the sizes,
\* in the same units, passed to deallocate for it.
\* allocate_type<AllocatedType>(allocator, args...)
allocate_type(type) ==
    [type |-> type, size |-> 1,
     constructed |-> IF is_trivial(type) THEN 0 ELSE 1,
     destroyed |-> <<0>>, deallocated |-> <<>>]
\* allocate_type_array<AllocatedType>(allocator, num_elements, args...)
allocate_type_array_elements(type, num_elements) ==
    [type |-> type, size |-> num_elements,
     constructed |-> IF is_trivial(type) THEN 0 ELSE num_elements,
     destroyed |-> [e \in 1..num_elements |-> 0], deallocated |-> <<>>]
\* Deleter<AllocatedType>::operator()(ptr) on the block ptr points to:
\* ptr->~AllocatedType() unless trivially destructible, then
\* m_allocator->deallocate(ptr, sizeof(AllocatedType)).
Deleter(block) ==
    [block EXCEPT
       !.destroyed = IF is_trivial(block.type) THEN @
                     ELSE [@ EXCEPT ![1] = @ + 1],
       !.deallocated = Append(@, 1)]

\* A std::unique_ptr<AllocatedType, Deleter<AllocatedType>>: whether it
\* exists, and the address of the block it owns.
NoUnique == [state |-> "unborn", ptr |-> nullptr]
UniqueNames == {"p", "q"}
MaxElements == 2

UniqueInit ==
    /\ objects = [n \in UniqueNames |-> NoUnique]
    /\ blocks = <<>>
    /\ NoTool
    /\ NoThreads
    /\ NoTrack
    /\ NoWriter
    /\ NoPtrOffset
    /\ NoPure

\* auto p = make_unique<AllocatedType>(allocator, args...);
MakeUnique ==
    /\ \E n \in UniqueNames, type \in ElementTypes :
          /\ objects[n].state = "unborn"
          /\ blocks' = Append(blocks, allocate_type(type))
          /\ objects' = [objects EXCEPT ![n] =
                 [state |-> "alive", ptr |-> Len(blocks) + 1]]
    /\ UNCHANGED <<toolVars, stageVars, trackVars, writerVars, ptrVars, pureVars>>
\* auto p = make_unique_array<AllocatedType>(allocator, num_elements, args...);
MakeUniqueArray ==
    /\ \E n \in UniqueNames, type \in ElementTypes,
          num_elements \in 1..MaxElements :
          /\ objects[n].state = "unborn"
          /\ blocks' = Append(blocks,
                 allocate_type_array_elements(type, num_elements))
          /\ objects' = [objects EXCEPT ![n] =
                 [state |-> "alive", ptr |-> Len(blocks) + 1]]
    /\ UNCHANGED <<toolVars, stageVars, trackVars, writerVars, ptrVars, pureVars>>
\* auto q = std::move(p); the block changes owner and p holds nullptr.
UniqueMove ==
    /\ \E n \in UniqueNames, other \in UniqueNames :
          /\ objects[n].state = "unborn"
          /\ objects[other].state = "alive"
          /\ objects' = [objects EXCEPT
                 ![n] = [state |-> "alive", ptr |-> objects[other].ptr],
                 ![other].ptr = nullptr]
    /\ UNCHANGED blocks
    /\ UNCHANGED <<toolVars, stageVars, trackVars, writerVars, ptrVars, pureVars>>
\* ~unique_ptr(): the deleter is called on a pointer that is not nullptr.
UniqueRelease ==
    /\ \E n \in UniqueNames :
          /\ objects[n].state = "alive"
          /\ objects' = [objects EXCEPT ![n] =
                 [state |-> "destroyed", ptr |-> nullptr]]
          /\ blocks' =
               IF objects[n].ptr = nullptr THEN blocks
               ELSE [blocks EXCEPT ![objects[n].ptr] = Deleter(@)]
    /\ UNCHANGED <<toolVars, stageVars, trackVars, writerVars, ptrVars, pureVars>>

UniqueNext == MakeUnique \/ MakeUniqueArray \/ UniqueMove \/ UniqueRelease
UniqueSpec == UniqueInit /\ [][UniqueNext]_vars

\* No unique_ptr owns the block any more.
Released(address) ==
    \A n \in UniqueNames : objects[n].ptr # address
\* C30: when a unique_ptr from make_unique_array(allocator, n, ...) or from
\* make_unique is released, every element constructed in its block has been
\* destroyed exactly once and deallocate has been called once, with the
\* size that was allocated (sizeof(element) * n, or sizeof(element)).
C30_ReleaseMatchesAllocation ==
    \A address \in DOMAIN blocks :
        LET block == blocks[address] IN
        /\ Len(block.deallocated) <= 1
        /\ Released(address) =>
              /\ block.deallocated = <<block.size>>
              /\ \A e \in 1..block.constructed : block.destroyed[e] = 1

\* ------------------------------------------------------ scalar_near_equal
\* scalar_near_equal calls abs unqualified on a double.  Which abs that is
\* rests with the headers of the build: the double overload of <cmath>, or
\* abs(int) of <stdlib.h>, which the argument reaches converted to int,
\* its fraction dropped.  Values are in grid steps, 1.0 being UnitSteps.
AbsOverloads == {"int", "double"}
abs(overload, x) ==
    IF overload = "int" THEN (Abs(x) \div UnitSteps) * UnitSteps ELSE Abs(x)
\* return abs(lhs - rhs) < threshold;
scalar_near_equal(overload, lhs, rhs, threshold) ==
    abs(overload, lhs - rhs) < threshold
\* Values around the threshold, around 1.0 and past it, of both signs.
NearValues ==
    {0 - (UnitSteps + UnitSteps \div 2), 0 - UnitSteps, 0 - 1, 0, 1,
     ThresholdSteps - 1, ThresholdSteps, ThresholdSteps + 1,
     UnitSteps \div 2, UnitSteps, UnitSteps + UnitSteps \div 2}
ScalarNearEqual ==
    /\ pure_call = <<>>
    /\ \E overload \in AbsOverloads, lhs \in NearValues, rhs \in NearValues :
          pure_call' = [op |-> "scalar_near_equal", overload |-> overload,
                        lhs |-> lhs, rhs |-> rhs, threshold |-> ThresholdSteps,
                        result |-> scalar_near_equal(overload, lhs, rhs,
                                                     ThresholdSteps)]
    /\ UNCHANGED <<toolVars, stageVars, trackVars, writerVars, ptrVars, lifeVars>>

\* ------------------------------------------- the pure functions, one call
PureNext == \/ AlignTo \/ CompressSizes \/ QuatSetGet \/ QuatLengthSquared
            \/ Deg2Rad \/ ScalarNearEqual
PureSpec == PureInit /\ [][PureNext]_vars

====
